---- MODULE Spec2Model ----
(***************************************************************************)
(* A model of spothero/tieredcache: the in-process tier (LocalCache over   *)
(* a bigcache engine), the remote tier (RemoteCache over a shared redisc   *)
(* cluster pool), the gob encoder and the TieredCache that composes them.  *)
(*                                                                         *)
(* Six specifications share  the variables:                                *)
(*   Spec      cache operations on a constructed TieredCache and its two   *)
(*             tiers, each call atomic (calls do not overlap): a call      *)
(*             runs and leaves what it returned in last, Return hands it   *)
(*             to the caller;                                              *)
(*   SpecPool  NewCache and Close of several goroutines, interleaved at    *)
(*             the grain of sync.Once (load of done, lock, f, store done); *)
(*   SpecClients  goroutines calling the tiers at once, interleaved at the *)
(*             grain of one engine call or one Redis command;              *)
(*   SpecMetrics  the calls of Spec made on two programs side by side, one *)
(*             with every Metrics set and one with some Metrics nil;     *)
(*   SpecTiered  one caller building TieredCaches, RemoteCaches and        *)
(*             LocalCaches and closing the pool, from no pool built;       *)
(*   SpecConns  goroutines in the remote tier's methods, interleaved at    *)
(*             the grain of taking, using and closing a connection.        *)
(***************************************************************************)
EXTENDS Integers, Sequences, FiniteSets, TLC

(***************************** bounds **************************************)
NumKeys == 2          \* how many distinct keys the callers use
NumProcs == 2         \* goroutines calling NewCache / Close in SpecPool
MaxPools == 2         \* pool objects the model can hold (one is all the code builds)
MaxTeardowns == 2     \* physical pool teardowns the model counts up to
MaxShards == 8        \* largest LocalCacheConfig.Shards a caller passes

(***************************** keys ****************************************)
\* Keys are strings, written as tuples of one-character strings.
Digits == <<"1", "2", "3", "4", "5", "6", "7", "8", "9">>
KeyName(i) == IF i % 2 = 1 THEN <<"f", Digits[i]>> ELSE <<"b", Digits[i]>>
Keys == {KeyName(i) : i \in 1..NumKeys}

(***************************** values and gob ******************************)
\* The values callers cache: a two-entry map, and the nil value.
MapV == [kind |-> "map", m |-> {<<1, 5>>, <<2, 6>>}]
NilV == [kind |-> "nil", m |-> {}]
NoValue == [kind |-> "none", m |-> {}]              \* a target nothing was decoded into
Values == {MapV, NilV}

NilBytes == <<>>                                    \* Go's nil []byte

NoErr == [src |-> "none", kind |-> "nil"]
Err(src, kind) == [src |-> src, kind |-> kind]

\* Every order in which the elements of S can be visited.
Orders(S) ==
    {s \in [1..Cardinality(S) -> S] : \A i, j \in 1..Cardinality(S) : i # j => s[i] # s[j]}

RECURSIVE Flatten(_)
Flatten(ps) ==
    IF ps = <<>> THEN <<>> ELSE <<Head(ps)[1], Head(ps)[2]>> \o Flatten(Tail(ps))

\* GobCacheEncoder.Encode: the byte strings gob can produce for v: a type tag,
\* the entry count, the entries. gob walks a map in Go's map iteration order,
\* which is not fixed, so a map with two entries has two encodings; nil cannot
\* be encoded (the empty set: an error).
Encodings(v) ==
    IF v.kind = "map"
    THEN {<<"map", Cardinality(v.m)>> \o Flatten(s) : s \in Orders(v.m)}
    ELSE {}

\* What one Encode call returns: one of the encodings, or the encode error.
EncodeFail == <<"error">>
EncodeResults(v) == IF Encodings(v) = {} THEN {EncodeFail} ELSE Encodings(v)

\* Variant that reads each entry back with key and element exchanged.
DecodeSwapped(b, src) ==
    IF Len(b) >= 2 /\ b[1] = "map" /\ Len(b) = 2 + 2 * b[2]
    THEN [err |-> NoErr,
          value |-> [kind |-> "map",
                     m |-> {<<b[2 * i + 2], b[2 * i + 1]>> : i \in 1..b[2]}]]
    ELSE [err |-> Err(src, "ErrDecode"), value |-> NoValue]

\* GobCacheEncoder.Decode: parse the bytes back into a value, or fail on
\* bytes that are no complete encoding.
Decode(b, src) ==
    IF Len(b) >= 2 /\ b[1] = "map" /\ Len(b) = 2 + 2 * b[2]
    THEN [err |-> NoErr,
          value |-> [kind |-> "map",
                     m |-> {<<b[2 * i + 1], b[2 * i + 2]>> : i \in 1..b[2]}]]
    ELSE [err |-> Err(src, "ErrDecode"), value |-> NoValue]

\* Bytes no value encodes to: a caller may store any bytes with SetBytes.
Garbage == <<"map", 2, 1, 5>>
Bytes == UNION {Encodings(v) : v \in Values} \cup {Garbage}

(***************************** glob patterns *******************************)
\* Redis KEYS glob matching of pattern p against key s: "*" matches any run of
\* characters, "?" any one character, anything else itself.
RECURSIVE GlobMatch(_, _)
GlobMatch(p, s) ==
    IF p = <<>> THEN s = <<>>
    ELSE IF Head(p) = "*"
         THEN GlobMatch(Tail(p), s) \/ (s # <<>> /\ GlobMatch(p, Tail(s)))
         ELSE /\ s # <<>>
              /\ (Head(p) = "?" \/ Head(p) = Head(s))
              /\ GlobMatch(Tail(p), Tail(s))

(***************************** metrics *************************************)
\* One recorded counter: whose Metrics, which counter.
Rec(owner, counter) == <<owner, counter>>

(***************************** LocalCache **********************************)
\* A store is a function from the keys it holds to their bytes.
EmptyStore == [k \in {} |-> NilBytes]
Put(s, key, b) == [k \in DOMAIN s \cup {key} |-> IF k = key THEN b ELSE s[k]]
Drop(s, ks) == [k \in DOMAIN s \ ks |-> s[k]]

\* The result of one call on one tier.
Res(store, err, data, target, rec) ==
    [store |-> store, err |-> err, data |-> data, target |-> target, rec |-> rec]

\* Variant of GetBytes that counts what it finds.
LocalGetBytesCounting(l, key) ==
    IF key \in DOMAIN l
    THEN Res(l, NoErr, l[key], NoValue, <<Rec("Local", "Hit")>>)
    ELSE Res(l, Err("Local", "ErrEntryNotFound"), NilBytes, NoValue, <<Rec("Local", "Miss")>>)

LocalGetBytes(l, key) ==
    IF key \in DOMAIN l
    THEN Res(l, NoErr, l[key], NoValue, <<>>)
    ELSE Res(l, Err("Local", "ErrEntryNotFound"), NilBytes, NoValue, <<>>)

LocalGet(l, key) ==
    LET g == LocalGetBytes(l, key)
        m == IF g.err # NoErr THEN <<Rec("Local", "Miss")>> ELSE <<Rec("Local", "Hit")>>
    IN  IF g.err # NoErr
        THEN Res(l, g.err, NilBytes, NoValue, m)
        ELSE LET d == Decode(g.data, "Local")
             IN  Res(l, d.err, NilBytes, d.value, m)

\* engineFail: the engine rejects the entry (bigcache: larger than the shard).
LocalSetBytes(l, key, b, engineFail) ==
    IF engineFail
    THEN Res(l, Err("Local", "ErrEntryTooBig"), NilBytes, NoValue, <<>>)
    ELSE Res(Put(l, key, b), NoErr, NilBytes, NoValue, <<>>)

\* Variant of LocalCache.Set that hands the engine one byte too few.
LocalSetTruncating(l, key, enc, engineFail) ==
    IF enc = EncodeFail
    THEN Res(l, Err("Local", "ErrEncode"), NilBytes, NoValue, <<Rec("Local", "SetCollision")>>)
    ELSE LET s == LocalSetBytes(l, key, SubSeq(enc, 1, Len(enc) - 1), engineFail)
         IN  Res(s.store, s.err, NilBytes, NoValue, <<Rec("Local", "Set")>>)

\* enc is what Encode returned for the value: an encoding, or EncodeFail.
LocalSet(l, key, enc, engineFail) ==
    IF enc = EncodeFail
    THEN Res(l, Err("Local", "ErrEncode"), NilBytes, NoValue, <<Rec("Local", "SetCollision")>>)
    ELSE LET s == LocalSetBytes(l, key, enc, engineFail)
         IN  Res(s.store, s.err, NilBytes, NoValue, <<Rec("Local", "Set")>>)

\* Variant that reads its argument as a glob pattern, as the remote tier does.
LocalDeleteGlob(l, key) ==
    LET ks == {k \in DOMAIN l : GlobMatch(key, k)}
    IN  IF ks # {}
        THEN Res(Drop(l, ks), NoErr, NilBytes, NoValue, <<Rec("Local", "DeleteHit")>>)
        ELSE Res(l, Err("Local", "ErrEntryNotFound"), NilBytes, NoValue,
                 <<Rec("Local", "DeleteMiss")>>)

\* Variant that resets the engine when the key is found.
LocalDeleteClearsAll(l, key) ==
    IF key \in DOMAIN l
    THEN Res(EmptyStore, NoErr, NilBytes, NoValue, <<Rec("Local", "DeleteHit")>>)
    ELSE Res(l, Err("Local", "ErrEntryNotFound"), NilBytes, NoValue,
             <<Rec("Local", "DeleteMiss")>>)

LocalDelete(l, key) ==
    IF key \in DOMAIN l
    THEN Res(Drop(l, {key}), NoErr, NilBytes, NoValue, <<Rec("Local", "DeleteHit")>>)
    ELSE Res(l, Err("Local", "ErrEntryNotFound"), NilBytes, NoValue,
             <<Rec("Local", "DeleteMiss")>>)

\* engineFail: the engine's Reset returns an error.
LocalPurge(l, engineFail) ==
    IF engineFail
    THEN Res(l, Err("Local", "ErrReset"), NilBytes, NoValue, <<Rec("Local", "PurgeMiss")>>)
    ELSE Res(EmptyStore, NoErr, NilBytes, NoValue, <<Rec("Local", "PurgeHit")>>)

(***************************** RemoteCache *********************************)
\* Variant of a pool that keeps handing out working connections once closed.
ConnErrIgnoreClosed(pool, transportFail) ==
    IF transportFail THEN Err("Remote", "ErrConn") ELSE NoErr

\* The error every command on a connection taken from the pool returns: the
\* pool's own error once it is closed, a transport error when the network
\* fails, no error otherwise.
ConnErr(pool, transportFail) ==
    IF pool.closed THEN Err("Remote", "ErrClosed")
    ELSE IF transportFail THEN Err("Remote", "ErrConn")
    ELSE NoErr

RemoteGetBytes(r, cerr, key) ==
    IF cerr # NoErr THEN Res(r, cerr, NilBytes, NoValue, <<>>)
    ELSE IF key \in DOMAIN r THEN Res(r, NoErr, r[key], NoValue, <<>>)
    ELSE Res(r, Err("Remote", "ErrNil"), NilBytes, NoValue, <<>>)

RemoteGet(r, cerr, key) ==
    LET g == RemoteGetBytes(r, cerr, key)
        m == IF g.err # NoErr THEN <<Rec("Remote", "Miss")>> ELSE <<Rec("Remote", "Hit")>>
    IN  IF g.err # NoErr
        THEN Res(r, g.err, NilBytes, NoValue, m)
        ELSE LET d == Decode(g.data, "Remote")
             IN  Res(r, d.err, NilBytes, d.value, m)

RemoteSetBytes(r, cerr, key, b) ==
    IF cerr # NoErr THEN Res(r, cerr, NilBytes, NoValue, <<>>)
    ELSE Res(Put(r, key, b), NoErr, NilBytes, NoValue, <<>>)

\* Variant that counts the failed Encode and goes on to SetBytes with the nil
\* bytes Encode returned.
RemoteSetWritesOnEncodeError(r, cerr, key, enc) ==
    IF enc = EncodeFail
    THEN LET s == RemoteSetBytes(r, cerr, key, NilBytes)
         IN  Res(s.store, s.err, NilBytes, NoValue, <<Rec("Remote", "SetCollision")>>)
    ELSE LET s == RemoteSetBytes(r, cerr, key, enc)
         IN  Res(s.store, s.err, NilBytes, NoValue, <<Rec("Remote", "Set")>>)

RemoteSet(r, cerr, key, enc) ==
    IF enc = EncodeFail
    THEN Res(r, Err("Remote", "ErrEncode"), NilBytes, NoValue,
             <<Rec("Remote", "SetCollision")>>)
    ELSE LET s == RemoteSetBytes(r, cerr, key, enc)
         IN  Res(s.store, s.err, NilBytes, NoValue, <<Rec("Remote", "Set")>>)

\* Variant for which a pattern that matches nothing is an error.
RemoteDeleteZeroMatchFails(r, cerr, keysReplyErr, execFail, pattern) ==
    LET keysToDelete == IF cerr # NoErr \/ keysReplyErr THEN {}
                        ELSE {k \in DOMAIN r : GlobMatch(pattern, k)}
        m == IF cerr # NoErr \/ keysToDelete = {}
             THEN <<Rec("Remote", "DeleteMiss")>> ELSE <<Rec("Remote", "DeleteHit")>>
        execErr == IF cerr # NoErr THEN cerr
                   ELSE IF execFail THEN Err("Remote", "ErrConn") ELSE NoErr
    IN  IF execErr # NoErr THEN Res(r, execErr, NilBytes, NoValue, m)
        ELSE IF keysToDelete = {} THEN Res(r, Err("Remote", "ErrNil"), NilBytes, NoValue, m)
        ELSE Res(Drop(r, keysToDelete), NoErr, NilBytes, NoValue, m)

\* Variant that takes the counter from the outcome of the whole call.
RemoteDeleteCountsOutcome(r, cerr, keysReplyErr, execFail, pattern) ==
    LET keysToDelete == IF cerr # NoErr \/ keysReplyErr THEN {}
                        ELSE {k \in DOMAIN r : GlobMatch(pattern, k)}
        execErr == IF cerr # NoErr THEN cerr
                   ELSE IF execFail THEN Err("Remote", "ErrConn") ELSE NoErr
        m == IF execErr # NoErr \/ keysToDelete = {}
             THEN <<Rec("Remote", "DeleteMiss")>> ELSE <<Rec("Remote", "DeleteHit")>>
    IN  IF execErr # NoErr THEN Res(r, execErr, NilBytes, NoValue, m)
        ELSE Res(Drop(r, keysToDelete), NoErr, NilBytes, NoValue, m)

\* Variant that returns at once when KEYS fails.
RemoteDeleteShortCircuit(r, cerr, keysReplyErr, execFail, pattern) ==
    LET keysToDelete == {k \in DOMAIN r : GlobMatch(pattern, k)}
        m == IF keysToDelete = {}
             THEN <<Rec("Remote", "DeleteMiss")>> ELSE <<Rec("Remote", "DeleteHit")>>
        execErr == IF execFail THEN Err("Remote", "ErrConn") ELSE NoErr
    IN  IF cerr # NoErr
        THEN Res(r, cerr, NilBytes, NoValue, <<Rec("Remote", "DeleteMiss")>>)
        ELSE IF keysReplyErr
        THEN Res(r, Err("Remote", "ErrReply"), NilBytes, NoValue,
                 <<Rec("Remote", "DeleteMiss")>>)
        ELSE IF execErr # NoErr THEN Res(r, execErr, NilBytes, NoValue, m)
        ELSE Res(Drop(r, keysToDelete), NoErr, NilBytes, NoValue, m)

\* KEYS, MULTI, one DEL per matched key, EXEC, all on one connection.
\* keysReplyErr: KEYS is answered with an error reply (the connection stays
\* usable); execFail: the transport fails at the EXEC round trip.
RemoteDelete(r, cerr, keysReplyErr, execFail, pattern) ==
    LET keysToDelete == IF cerr # NoErr \/ keysReplyErr THEN {}
                        ELSE {k \in DOMAIN r : GlobMatch(pattern, k)}
        multiErr == cerr
        m == IF multiErr # NoErr \/ keysToDelete = {}
             THEN <<Rec("Remote", "DeleteMiss")>> ELSE <<Rec("Remote", "DeleteHit")>>
        execErr == IF cerr # NoErr THEN cerr
                   ELSE IF execFail THEN Err("Remote", "ErrConn") ELSE NoErr
    IN  IF execErr # NoErr THEN Res(r, execErr, NilBytes, NoValue, m)
        ELSE Res(Drop(r, keysToDelete), NoErr, NilBytes, NoValue, m)

\* The Redis commands of one Delete, in order, each with the error it
\* returned: KEYS, MULTI, one DEL per key of the KEYS reply, EXEC.
DeleteCommands(r, cerr, keysReplyErr, execFail, pattern) ==
    LET keysErr == IF cerr # NoErr THEN cerr
                   ELSE IF keysReplyErr THEN Err("Remote", "ErrReply") ELSE NoErr
        keysToDelete == IF keysErr # NoErr THEN {}
                        ELSE {k \in DOMAIN r : GlobMatch(pattern, k)}
        execErr == IF cerr # NoErr THEN cerr
                   ELSE IF execFail THEN Err("Remote", "ErrConn") ELSE NoErr
    IN  <<[tier |-> "Redis", method |-> "KEYS", err |-> keysErr],
          [tier |-> "Redis", method |-> "MULTI", err |-> cerr]>>
        \o [i \in 1..Cardinality(keysToDelete) |->
               [tier |-> "Redis", method |-> "DEL", err |-> cerr]]
        \o <<[tier |-> "Redis", method |-> "EXEC", err |-> execErr]>>

\* Variant that counts only the successful wipe.
RemotePurgeCountsHitOnly(r, cerr) ==
    IF cerr # NoErr THEN Res(r, cerr, NilBytes, NoValue, <<>>)
    ELSE Res(EmptyStore, NoErr, NilBytes, NoValue, <<Rec("Remote", "PurgeHit")>>)

RemotePurge(r, cerr) ==
    IF cerr # NoErr THEN Res(r, cerr, NilBytes, NoValue, <<Rec("Remote", "PurgeMiss")>>)
    ELSE Res(EmptyStore, NoErr, NilBytes, NoValue, <<Rec("Remote", "PurgeHit")>>)

(***************************** TieredCache *********************************)
\* One call TieredCache made on a tier, and the error it got back.
Call(tier, method, err) == [tier |-> tier, method |-> method, err |-> err]

\* The result of one TieredCache call: both stores, what it returned, the tier
\* calls it made in order, and the counters recorded (tiers' and its own).
TRes(l, r, err, data, target, calls, rec) ==
    [local |-> l, remote |-> r, err |-> err, data |-> data, target |-> target,
     calls |-> calls, rec |-> rec]

\* Variant without the fallback: Local's result is returned as it is.
TieredGetBytesNoFallback(l, r, cerr, key) ==
    LET lo == LocalGetBytes(l, key)
    IN  TRes(lo.store, r, lo.err, lo.data, NoValue,
             <<Call("Local", "GetBytes", lo.err)>>, lo.rec)

\* Variant that answers a miss in both tiers with an error of its own.
TieredGetBytesMasksRemote(l, r, cerr, key) ==
    LET lo == LocalGetBytes(l, key)
        re == RemoteGetBytes(r, cerr, key)
    IN  IF lo.err # NoErr
        THEN TRes(lo.store, re.store,
                  IF re.err # NoErr THEN Err("Tiered", "ErrNotFound") ELSE NoErr,
                  re.data, NoValue,
                  <<Call("Local", "GetBytes", lo.err), Call("Remote", "GetBytes", re.err)>>,
                  lo.rec \o re.rec)
        ELSE TRes(lo.store, r, lo.err, lo.data, NoValue,
                  <<Call("Local", "GetBytes", lo.err)>>, lo.rec)

TieredGetBytes(l, r, cerr, key) ==
    LET lo == LocalGetBytes(l, key)
        re == RemoteGetBytes(r, cerr, key)
    IN  IF lo.err # NoErr
        THEN TRes(lo.store, re.store, re.err, re.data, NoValue,
                  <<Call("Local", "GetBytes", lo.err), Call("Remote", "GetBytes", re.err)>>,
                  lo.rec \o re.rec)
        ELSE TRes(lo.store, r, lo.err, lo.data, NoValue,
                  <<Call("Local", "GetBytes", lo.err)>>, lo.rec)

\* Variant whose own counter follows each tier's result in turn: a Miss for
\* the Local miss, then the counter of the Remote read.
TieredGetCountsPerTier(l, r, cerr, key) ==
    LET lo == LocalGet(l, key)
        re == RemoteGet(r, cerr, key)
        own(err) == IF err # NoErr THEN <<Rec("Tiered", "Miss")>> ELSE <<Rec("Tiered", "Hit")>>
    IN  IF lo.err # NoErr
        THEN TRes(lo.store, re.store, re.err, NilBytes, re.target,
                  <<Call("Local", "Get", lo.err), Call("Remote", "Get", re.err)>>,
                  lo.rec \o own(lo.err) \o re.rec \o own(re.err))
        ELSE TRes(lo.store, r, lo.err, NilBytes, lo.target,
                  <<Call("Local", "Get", lo.err)>>, lo.rec \o own(lo.err))

\* Variant that promotes: a value served by Remote is copied into Local.
TieredGetPromote(l, r, cerr, key) ==
    LET lo == LocalGet(l, key)
        re == RemoteGet(r, cerr, key)
        own(err) == IF err # NoErr THEN <<Rec("Tiered", "Miss")>> ELSE <<Rec("Tiered", "Hit")>>
    IN  IF lo.err # NoErr
        THEN TRes(IF re.err = NoErr THEN Put(l, key, r[key]) ELSE l,
                  re.store, re.err, NilBytes, re.target,
                  <<Call("Local", "Get", lo.err), Call("Remote", "Get", re.err)>>,
                  lo.rec \o re.rec \o own(re.err))
        ELSE TRes(lo.store, r, lo.err, NilBytes, lo.target,
                  <<Call("Local", "Get", lo.err)>>, lo.rec \o own(lo.err))

TieredGet(l, r, cerr, key) ==
    LET lo == LocalGet(l, key)
        re == RemoteGet(r, cerr, key)
        own(err) == IF err # NoErr THEN <<Rec("Tiered", "Miss")>> ELSE <<Rec("Tiered", "Hit")>>
    IN  IF lo.err # NoErr
        THEN TRes(lo.store, re.store, re.err, NilBytes, re.target,
                  <<Call("Local", "Get", lo.err), Call("Remote", "Get", re.err)>>,
                  lo.rec \o re.rec \o own(re.err))
        ELSE TRes(lo.store, r, lo.err, NilBytes, lo.target,
                  <<Call("Local", "Get", lo.err)>>, lo.rec \o own(lo.err))

\* Variant that stops after the Local write and reports success.
TieredSetBytesLocalOnly(l, r, cerr, key, b, engineFail) ==
    LET lo == LocalSetBytes(l, key, b, engineFail)
    IN  TRes(lo.store, r, lo.err, NilBytes, NoValue,
             <<Call("Local", "SetBytes", lo.err)>>, lo.rec)

TieredSetBytes(l, r, cerr, key, b, engineFail) ==
    LET lo == LocalSetBytes(l, key, b, engineFail)
        re == RemoteSetBytes(r, cerr, key, b)
    IN  IF lo.err = NoErr
        THEN TRes(lo.store, re.store, re.err, NilBytes, NoValue,
                  <<Call("Local", "SetBytes", lo.err), Call("Remote", "SetBytes", re.err)>>,
                  lo.rec \o re.rec)
        ELSE TRes(lo.store, r, lo.err, NilBytes, NoValue,
                  <<Call("Local", "SetBytes", lo.err)>>, lo.rec)

\* Variant that writes Remote whatever the Local write returned.
TieredSetAlwaysRemote(l, r, cerr, key, encL, encR, engineFail) ==
    LET lo == LocalSet(l, key, encL, engineFail)
        re == RemoteSet(r, cerr, key, encR)
        own(err) == IF err # NoErr THEN <<Rec("Tiered", "SetCollision")>>
                    ELSE <<Rec("Tiered", "Set")>>
    IN  IF lo.err = NoErr
        THEN TRes(lo.store, re.store, re.err, NilBytes, NoValue,
                  <<Call("Local", "Set", lo.err), Call("Remote", "Set", re.err)>>,
                  lo.rec \o re.rec \o own(re.err))
        ELSE TRes(lo.store, re.store, lo.err, NilBytes, NoValue,
                  <<Call("Local", "Set", lo.err)>>, lo.rec \o own(lo.err))

\* Variant that rolls back: a failed Remote write undoes the Local write.
TieredSetRollback(l, r, cerr, key, encL, encR, engineFail) ==
    LET lo == LocalSet(l, key, encL, engineFail)
        re == RemoteSet(r, cerr, key, encR)
        own(err) == IF err # NoErr THEN <<Rec("Tiered", "SetCollision")>>
                    ELSE <<Rec("Tiered", "Set")>>
    IN  IF lo.err = NoErr
        THEN TRes(IF re.err # NoErr THEN l ELSE lo.store,
                  re.store, re.err, NilBytes, NoValue,
                  <<Call("Local", "Set", lo.err), Call("Remote", "Set", re.err)>>,
                  lo.rec \o re.rec \o own(re.err))
        ELSE TRes(lo.store, r, lo.err, NilBytes, NoValue,
                  <<Call("Local", "Set", lo.err)>>, lo.rec \o own(lo.err))

\* encL, encR: what the Encode call of each tier returned for the value.
TieredSet(l, r, cerr, key, encL, encR, engineFail) ==
    LET lo == LocalSet(l, key, encL, engineFail)
        re == RemoteSet(r, cerr, key, encR)
        own(err) == IF err # NoErr THEN <<Rec("Tiered", "SetCollision")>>
                    ELSE <<Rec("Tiered", "Set")>>
    IN  IF lo.err = NoErr
        THEN TRes(lo.store, re.store, re.err, NilBytes, NoValue,
                  <<Call("Local", "Set", lo.err), Call("Remote", "Set", re.err)>>,
                  lo.rec \o re.rec \o own(re.err))
        ELSE TRes(lo.store, r, lo.err, NilBytes, NoValue,
                  <<Call("Local", "Set", lo.err)>>, lo.rec \o own(lo.err))

\* Variant that deletes from Remote whatever the Local delete returned.
TieredDeleteAlwaysRemote(l, r, cerr, keysReplyErr, execFail, key) ==
    LET lo == LocalDelete(l, key)
        re == RemoteDelete(r, cerr, keysReplyErr, execFail, key)
        own(err) == IF err # NoErr THEN <<Rec("Tiered", "DeleteMiss")>>
                    ELSE <<Rec("Tiered", "DeleteHit")>>
    IN  IF lo.err = NoErr
        THEN TRes(lo.store, re.store, re.err, NilBytes, NoValue,
                  <<Call("Local", "Delete", lo.err), Call("Remote", "Delete", re.err)>>,
                  lo.rec \o re.rec \o own(re.err))
        ELSE TRes(lo.store, re.store, lo.err, NilBytes, NoValue,
                  <<Call("Local", "Delete", lo.err)>>, lo.rec \o own(lo.err))

\* Variant whose own counter follows the Local delete alone.
TieredDeleteCountsLocal(l, r, cerr, keysReplyErr, execFail, key) ==
    LET lo == LocalDelete(l, key)
        re == RemoteDelete(r, cerr, keysReplyErr, execFail, key)
        own(err) == IF err # NoErr THEN <<Rec("Tiered", "DeleteMiss")>>
                    ELSE <<Rec("Tiered", "DeleteHit")>>
    IN  IF lo.err = NoErr
        THEN TRes(lo.store, re.store, re.err, NilBytes, NoValue,
                  <<Call("Local", "Delete", lo.err), Call("Remote", "Delete", re.err)>>,
                  lo.rec \o re.rec \o own(lo.err))
        ELSE TRes(lo.store, r, lo.err, NilBytes, NoValue,
                  <<Call("Local", "Delete", lo.err)>>, lo.rec \o own(lo.err))

TieredDelete(l, r, cerr, keysReplyErr, execFail, key) ==
    LET lo == LocalDelete(l, key)
        re == RemoteDelete(r, cerr, keysReplyErr, execFail, key)
        own(err) == IF err # NoErr THEN <<Rec("Tiered", "DeleteMiss")>>
                    ELSE <<Rec("Tiered", "DeleteHit")>>
    IN  IF lo.err = NoErr
        THEN TRes(lo.store, re.store, re.err, NilBytes, NoValue,
                  <<Call("Local", "Delete", lo.err), Call("Remote", "Delete", re.err)>>,
                  lo.rec \o re.rec \o own(re.err))
        ELSE TRes(lo.store, r, lo.err, NilBytes, NoValue,
                  <<Call("Local", "Delete", lo.err)>>, lo.rec \o own(lo.err))

\* Variant that purges Local only and reports its result.
TieredPurgeLocalOnly(l, r, cerr, engineFail) ==
    LET lo == LocalPurge(l, engineFail)
        own(err) == IF err # NoErr THEN <<Rec("Tiered", "PurgeMiss")>>
                    ELSE <<Rec("Tiered", "PurgeHit")>>
    IN  TRes(lo.store, r, lo.err, NilBytes, NoValue,
             <<Call("Local", "Purge", lo.err)>>, lo.rec \o own(lo.err))

TieredPurge(l, r, cerr, engineFail) ==
    LET lo == LocalPurge(l, engineFail)
        re == RemotePurge(r, cerr)
        own(err) == IF err # NoErr THEN <<Rec("Tiered", "PurgeMiss")>>
                    ELSE <<Rec("Tiered", "PurgeHit")>>
    IN  IF lo.err = NoErr
        THEN TRes(lo.store, re.store, re.err, NilBytes, NoValue,
                  <<Call("Local", "Purge", lo.err), Call("Remote", "Purge", re.err)>>,
                  lo.rec \o re.rec \o own(re.err))
        ELSE TRes(lo.store, r, lo.err, NilBytes, NoValue,
                  <<Call("Local", "Purge", lo.err)>>, lo.rec \o own(lo.err))

(***************************** the shared pool *****************************)
\* RemoteCacheConfig values callers pass: they differ in seed nodes, timeout,
\* auth token and tracing flag.
CfgA == [URLs |-> "nodesA", Timeout |-> "5s", AuthToken |-> "", TracingEnabled |-> FALSE]
CfgB == [URLs |-> "nodesB", Timeout |-> "1s", AuthToken |-> "token", TracingEnabled |-> TRUE]
Configs == {CfgA, CfgB}
NoCfg == [URLs |-> "", Timeout |-> "", AuthToken |-> "", TracingEnabled |-> FALSE]

\* The encoder and the metrics recorder a caller hands to NewCache; the
\* recorder may be nil.
GobEncoder == "GobCacheEncoder"
NilMetrics == "nil"
MetricsArgs == {NilMetrics, "PrometheusCacheMetrics"}

NilCluster == 0                                     \* the nil *redisc.Cluster
NewOnce == [done |-> FALSE, locked |-> FALSE]       \* sync.Once{}

\* Variant of a Once that runs f on every Do.
OnceAlwaysRun(once) == TRUE

\* sync.Once.Do runs f only while done is unset.
OnceShouldRun(once) == ~once.done

\* The function NewCache hands to onceCreate.Do: build the cluster from the
\* caller's configuration and publish it in sharedCluster.cluster.
CreateCluster(sc, ps, cfg) ==
    LET ps2 == Append(ps, [StartupNodes |-> cfg.URLs, Timeout |-> cfg.Timeout,
                           closed |-> FALSE])
    IN  [sc |-> [sc EXCEPT !.cluster = Len(ps2)], pools |-> ps2, panic |-> FALSE]

\* The function Close hands to onceClose.Do: sharedCluster.cluster.Close().
\* On the nil cluster the call dereferences nil and panics.
CloseCluster(sc, ps) ==
    IF sc.cluster = NilCluster
    THEN [sc |-> sc, pools |-> ps, panic |-> TRUE]
    ELSE [sc |-> sc, pools |-> [ps EXCEPT ![sc.cluster].closed = TRUE], panic |-> FALSE]

\* cluster.Refresh(): fails on a closed cluster or when no node answers.
RefreshErr(pool, refreshFail) ==
    IF pool.closed THEN Err("Remote", "ErrClosed")
    ELSE IF refreshFail THEN Err("Remote", "ErrRefresh")
    ELSE NoErr

\* The AUTH step of NewCache: only after a good refresh and with a token.
AuthErr(pool, cfg, refreshErr, authFail) ==
    IF refreshErr = NoErr /\ cfg.AuthToken # ""
    THEN (IF ConnErr(pool, FALSE) # NoErr THEN ConnErr(pool, FALSE)
          ELSE IF authFail THEN Err("Remote", "ErrAuth") ELSE NoErr)
    ELSE refreshErr

\* The RemoteCache value NewCache returns: the cluster it references.
RemoteCacheValue(cluster) == [cluster |-> cluster]

\* Variant that returns the zero RemoteCache when there is an error.
RemoteCacheStructZeroOnError(cluster, encoder, metrics, tracing, err) ==
    IF err # NoErr THEN <<"RemoteCache", NilCluster, "", NilMetrics, FALSE>>
    ELSE <<"RemoteCache", cluster, encoder, metrics, tracing>>

\* The RemoteCache struct of NewCache's return statement, field by field:
\* cluster, Encoder, Metrics, TracingEnabled; the same whatever err is.
RemoteCacheStruct(cluster, encoder, metrics, tracing, err) ==
    <<"RemoteCache", cluster, encoder, metrics, tracing>>

(***************************** state ***************************************)
VARIABLES
    local,          \* the bigcache engine of the LocalCache: key -> bytes
    remote,         \* the Redis store behind the pool: key -> bytes
    sharedCluster,  \* the package variable: cluster, onceCreate, onceClose
    pools,          \* every *redisc.Cluster object built so far, in order
    returned,       \* the RemoteCache values NewCache calls have returned
    teardowns,      \* how many times a cluster's Close has physically run
    pc,             \* where each goroutine is in the call it is running
    frame,          \* each goroutine's arguments and locals in that call
                    \* (in SpecMetrics: the program that runs alongside)
    last            \* the call that has just returned: arguments and results

vars == <<local, remote, sharedCluster, pools, returned, teardowns, pc, frame, last>>

Procs == 1..NumProcs

Last(op, key, val, bytes, err, data, target, calls, rec) ==
    [op |-> op, key |-> key, val |-> val, bytes |-> bytes, err |-> err, data |-> data,
     target |-> target, calls |-> calls, rec |-> rec]

NoKey == <<>>
NoLast == Last("none", NoKey, NoValue, NilBytes, NoErr, NilBytes, NoValue, <<>>, <<>>)

\* The package state as the program starts: no cluster, two fresh Onces.
InitPool ==
    /\ local = EmptyStore
    /\ remote = EmptyStore
    /\ sharedCluster = [cluster |-> NilCluster, onceCreate |-> NewOnce, onceClose |-> NewOnce]
    /\ pools = <<>>
    /\ returned = {}
    /\ teardowns = 0
    /\ pc = [p \in Procs |-> "idle"]
    /\ frame = [p \in Procs |-> NoCfg]
    /\ last = NoLast

\* The state after TieredCacheConfig.NewCache has returned a TieredCache built
\* from CfgA: the pool exists and is open, both stores are empty.
Init ==
    LET c == CreateCluster([cluster |-> NilCluster, onceCreate |-> NewOnce,
                            onceClose |-> NewOnce], <<>>, CfgA)
    IN  /\ local = EmptyStore
        /\ remote = EmptyStore
        /\ sharedCluster = [c.sc EXCEPT !.onceCreate.done = TRUE]
        /\ pools = c.pools
        /\ returned = {RemoteCacheValue(c.sc.cluster)}
        /\ teardowns = 0
        /\ pc = [p \in Procs |-> "idle"]
        /\ frame = [p \in Procs |-> NoCfg]
        /\ last = NoLast

poolVars == <<sharedCluster, pools, returned, teardowns, pc, frame>>

\* No call is running: the caller has taken the result of the one before.
Idle == last = NoLast

\* The caller takes the result; the next call may start.
Return ==
    /\ ~Idle
    /\ last' = NoLast
    /\ UNCHANGED <<local, remote, poolVars>>

(***************************** Spec: LocalCache calls **********************)
\* A leaf tier call as the last call.
LeafLast(op, key, val, bytes, res) ==
    Last(op, key, val, bytes, res.err, res.data, res.target, <<>>, res.rec)

LocalGetBytesCall(key) ==
    LET res == LocalGetBytes(local, key)
    IN  /\ local' = res.store
        /\ last' = LeafLast("Local.GetBytes", key, NoValue, NilBytes, res)
        /\ UNCHANGED <<remote, poolVars>>

LocalGetCall(key) ==
    LET res == LocalGet(local, key)
    IN  /\ local' = res.store
        /\ last' = LeafLast("Local.Get", key, NoValue, NilBytes, res)
        /\ UNCHANGED <<remote, poolVars>>

LocalSetBytesCall(key, b, engineFail) ==
    LET res == LocalSetBytes(local, key, b, engineFail)
    IN  /\ local' = res.store
        /\ last' = LeafLast("Local.SetBytes", key, NoValue, b, res)
        /\ UNCHANGED <<remote, poolVars>>

LocalSetCall(key, v, enc, engineFail) ==
    LET res == LocalSet(local, key, enc, engineFail)
    IN  /\ local' = res.store
        /\ last' = LeafLast("Local.Set", key, v, NilBytes, res)
        /\ UNCHANGED <<remote, poolVars>>

LocalDeleteCall(key) ==
    LET res == LocalDelete(local, key)
    IN  /\ local' = res.store
        /\ last' = LeafLast("Local.Delete", key, NoValue, NilBytes, res)
        /\ UNCHANGED <<remote, poolVars>>

LocalPurgeCall(engineFail) ==
    LET res == LocalPurge(local, engineFail)
    IN  /\ local' = res.store
        /\ last' = LeafLast("Local.Purge", NoKey, NoValue, NilBytes, res)
        /\ UNCHANGED <<remote, poolVars>>

\* The engine drops an entry whose life window has passed.
LocalExpire(key) ==
    /\ key \in DOMAIN local
    /\ local' = Drop(local, {key})
    /\ last' = Last("Local.expire", key, NoValue, NilBytes, NoErr, NilBytes, NoValue,
                    <<>>, <<>>)
    /\ UNCHANGED <<remote, poolVars>>

(***************************** Spec: RemoteCache calls *********************)
\* Delete takes a glob pattern: a key itself, or a wildcard pattern.
Patterns == Keys \cup {<<"f", "*">>, <<"*">>}

\* The faults of one Delete: <<transport down, KEYS error reply, EXEC fails>>.
DeleteFaults ==
    {f \in BOOLEAN \X BOOLEAN \X BOOLEAN : f[1] => (~f[2] /\ ~f[3])}

\* The pool a RemoteCache value uses.
PoolOf(rc) == pools[rc.cluster]

RemoteGetBytesCall(rc, key, transportFail) ==
    LET res == RemoteGetBytes(remote, ConnErr(PoolOf(rc), transportFail), key)
    IN  /\ remote' = res.store
        /\ last' = LeafLast("Remote.GetBytes", key, NoValue, NilBytes, res)
        /\ UNCHANGED <<local, poolVars>>

RemoteGetCall(rc, key, transportFail) ==
    LET res == RemoteGet(remote, ConnErr(PoolOf(rc), transportFail), key)
    IN  /\ remote' = res.store
        /\ last' = LeafLast("Remote.Get", key, NoValue, NilBytes, res)
        /\ UNCHANGED <<local, poolVars>>

RemoteSetBytesCall(rc, key, b, transportFail) ==
    LET res == RemoteSetBytes(remote, ConnErr(PoolOf(rc), transportFail), key, b)
    IN  /\ remote' = res.store
        /\ last' = LeafLast("Remote.SetBytes", key, NoValue, b, res)
        /\ UNCHANGED <<local, poolVars>>

RemoteSetCall(rc, key, v, enc, transportFail) ==
    LET res == RemoteSet(remote, ConnErr(PoolOf(rc), transportFail), key, enc)
    IN  /\ remote' = res.store
        /\ last' = LeafLast("Remote.Set", key, v, NilBytes, res)
        /\ UNCHANGED <<local, poolVars>>

\* last.calls carries the Redis commands the call issued.
RemoteDeleteCall(rc, pattern, f) ==
    LET cerr == ConnErr(PoolOf(rc), f[1])
        res == RemoteDelete(remote, cerr, f[2], f[3], pattern)
    IN  /\ remote' = res.store
        /\ last' = [LeafLast("Remote.Delete", pattern, NoValue, NilBytes, res)
                      EXCEPT !.calls = DeleteCommands(remote, cerr, f[2], f[3], pattern)]
        /\ UNCHANGED <<local, poolVars>>

RemotePurgeCall(rc, transportFail) ==
    LET res == RemotePurge(remote, ConnErr(PoolOf(rc), transportFail))
    IN  /\ remote' = res.store
        /\ last' = LeafLast("Remote.Purge", NoKey, NoValue, NilBytes, res)
        /\ UNCHANGED <<local, poolVars>>

(***************************** Spec: TieredCache calls *********************)
TieredLast(op, key, val, bytes, res) ==
    Last(op, key, val, bytes, res.err, res.data, res.target, res.calls, res.rec)

TieredGetBytesCall(rc, key, transportFail) ==
    LET res == TieredGetBytes(local, remote, ConnErr(PoolOf(rc), transportFail), key)
    IN  /\ local' = res.local
        /\ remote' = res.remote
        /\ last' = TieredLast("Tiered.GetBytes", key, NoValue, NilBytes, res)
        /\ UNCHANGED poolVars

TieredGetCall(rc, key, transportFail) ==
    LET res == TieredGet(local, remote, ConnErr(PoolOf(rc), transportFail), key)
    IN  /\ local' = res.local
        /\ remote' = res.remote
        /\ last' = TieredLast("Tiered.Get", key, NoValue, NilBytes, res)
        /\ UNCHANGED poolVars

TieredSetBytesCall(rc, key, b, engineFail, transportFail) ==
    LET res == TieredSetBytes(local, remote, ConnErr(PoolOf(rc), transportFail), key, b,
                              engineFail)
    IN  /\ local' = res.local
        /\ remote' = res.remote
        /\ last' = TieredLast("Tiered.SetBytes", key, NoValue, b, res)
        /\ UNCHANGED poolVars

TieredSetCall(rc, key, v, encL, encR, engineFail, transportFail) ==
    LET res == TieredSet(local, remote, ConnErr(PoolOf(rc), transportFail), key, encL, encR,
                         engineFail)
    IN  /\ local' = res.local
        /\ remote' = res.remote
        /\ last' = TieredLast("Tiered.Set", key, v, NilBytes, res)
        /\ UNCHANGED poolVars

TieredDeleteCall(rc, key, f) ==
    LET res == TieredDelete(local, remote, ConnErr(PoolOf(rc), f[1]), f[2], f[3], key)
    IN  /\ local' = res.local
        /\ remote' = res.remote
        /\ last' = TieredLast("Tiered.Delete", key, NoValue, NilBytes, res)
        /\ UNCHANGED poolVars

TieredPurgeCall(rc, engineFail, transportFail) ==
    LET res == TieredPurge(local, remote, ConnErr(PoolOf(rc), transportFail), engineFail)
    IN  /\ local' = res.local
        /\ remote' = res.remote
        /\ last' = TieredLast("Tiered.Purge", NoKey, NoValue, NilBytes, res)
        /\ UNCHANGED poolVars

(***************************** Spec: NewCache and Close, whole calls ********)
\* What a pool call reports in last: the error, and the cluster calls it made.
PoolLast(op, err, calls) ==
    Last(op, NoKey, NoValue, NilBytes, err, NilBytes, NoValue, calls, <<>>)

\* What NewCache reports in last: bytes carries the encoder and metrics it
\* was given, data the RemoteCache struct it returned.
NewCacheLast(err, encoder, metrics, rcs) ==
    [PoolLast("NewCache", err, <<>>) EXCEPT !.bytes = <<"args", encoder, metrics>>,
                                            !.data = rcs]

Count(n) == IF n < MaxTeardowns THEN n + 1 ELSE n

Panic == Err("Remote", "panic: nil pointer dereference")

\* RemoteCacheConfig.NewCache, run without interleaving.
NewCacheCall(cfg, refreshFail, authFail, metrics) ==
    LET run == OnceShouldRun(sharedCluster.onceCreate)
        c == IF run THEN CreateCluster(sharedCluster, pools, cfg)
             ELSE [sc |-> sharedCluster, pools |-> pools, panic |-> FALSE]
        sc2 == [c.sc EXCEPT !.onceCreate.done = TRUE]
        pool == c.pools[sc2.cluster]
        err == AuthErr(pool, cfg, RefreshErr(pool, refreshFail), authFail)
    IN  /\ run => Len(pools) < MaxPools
        /\ sharedCluster' = sc2
        /\ pools' = c.pools
        /\ returned' = returned \cup {RemoteCacheValue(sc2.cluster)}
        /\ last' = NewCacheLast(err, GobEncoder, metrics,
                                RemoteCacheStruct(sc2.cluster, GobEncoder, metrics,
                                                  cfg.TracingEnabled, err))
        /\ UNCHANGED <<local, remote, teardowns, pc, frame>>

\* RemoteCache.Close / TieredCache.Close, run without interleaving.
CloseCall ==
    LET run == OnceShouldRun(sharedCluster.onceClose)
        c == IF run THEN CloseCluster(sharedCluster, pools)
             ELSE [sc |-> sharedCluster, pools |-> pools, panic |-> FALSE]
        err == IF c.panic THEN Panic ELSE NoErr
    IN  /\ sharedCluster' = [c.sc EXCEPT !.onceClose.done = TRUE]
        /\ pools' = c.pools
        /\ teardowns' = IF run /\ ~c.panic THEN Count(teardowns) ELSE teardowns
        /\ last' = PoolLast("Close", err,
                            IF run THEN <<Call("Cluster", "Close", err)>> ELSE <<>>)
        /\ UNCHANGED <<local, remote, returned, pc, frame>>

\* The dynamic type of the Cache a TieredCache holds in Remote: the RemoteCache
\* NewCache puts there, or another implementation such as a test's MockCache.
RemoteTypes == {"RemoteCache", "MockCache"}

TypePanic == Err("Tiered", "panic: interface conversion")

\* Variant that closes through any Remote, whatever its type.
TypeAssertionAny(remoteType) == TRUE

\* tc.Remote.(RemoteCache): holds for the concrete RemoteCache only.
TypeAssertion(remoteType) == remoteType = "RemoteCache"

\* TieredCache.Close on a TieredCache whose Remote has type remoteType, run
\* without interleaving; last.bytes carries the type.
TieredCloseCall(remoteType) ==
    LET ok == TypeAssertion(remoteType)
        run == ok /\ OnceShouldRun(sharedCluster.onceClose)
        c == IF run THEN CloseCluster(sharedCluster, pools)
             ELSE [sc |-> sharedCluster, pools |-> pools, panic |-> FALSE]
        err == IF ~ok THEN TypePanic ELSE IF c.panic THEN Panic ELSE NoErr
    IN  /\ sharedCluster' = IF ok THEN [c.sc EXCEPT !.onceClose.done = TRUE]
                            ELSE sharedCluster
        /\ pools' = c.pools
        /\ teardowns' = IF run /\ ~c.panic THEN Count(teardowns) ELSE teardowns
        /\ last' = [PoolLast("Tiered.Close", err,
                             IF ok THEN <<Call("Remote", "Close", err)>> ELSE <<>>)
                      EXCEPT !.bytes = <<"Remote", remoteType>>]
        /\ UNCHANGED <<local, remote, returned, pc, frame>>

(***************************** Spec ****************************************)
\* The faults of a tiered write: <<engine rejects, transport down>>; the remote
\* tier is not reached when the engine rejects.
WriteFaults == {f \in BOOLEAN \X BOOLEAN : f[1] => ~f[2]}

Next ==
    \/ Return
    \/ Idle /\ \E k \in Keys : LocalGetBytesCall(k)
    \/ Idle /\ \E k \in Keys : LocalGetCall(k)
    \/ Idle /\ \E k \in Keys, b \in Bytes, ef \in BOOLEAN : LocalSetBytesCall(k, b, ef)
    \/ Idle /\ \E k \in Keys, v \in Values, ef \in BOOLEAN :
         \E enc \in EncodeResults(v) : LocalSetCall(k, v, enc, ef)
    \/ Idle /\ \E k \in Keys : LocalDeleteCall(k)
    \/ Idle /\ \E ef \in BOOLEAN : LocalPurgeCall(ef)
    \/ Idle /\ \E k \in Keys : LocalExpire(k)
    \/ Idle /\ \E rc \in returned, k \in Keys, tf \in BOOLEAN : RemoteGetBytesCall(rc, k, tf)
    \/ Idle /\ \E rc \in returned, k \in Keys, tf \in BOOLEAN : RemoteGetCall(rc, k, tf)
    \/ Idle /\ \E rc \in returned, k \in Keys, b \in Bytes, tf \in BOOLEAN :
         RemoteSetBytesCall(rc, k, b, tf)
    \/ Idle /\ \E rc \in returned, k \in Keys, v \in Values, tf \in BOOLEAN :
         \E enc \in EncodeResults(v) : RemoteSetCall(rc, k, v, enc, tf)
    \/ Idle /\ \E rc \in returned, p \in Patterns, f \in DeleteFaults : RemoteDeleteCall(rc, p, f)
    \/ Idle /\ \E rc \in returned, tf \in BOOLEAN : RemotePurgeCall(rc, tf)
    \/ Idle /\ \E rc \in returned, k \in Keys, tf \in BOOLEAN : TieredGetBytesCall(rc, k, tf)
    \/ Idle /\ \E rc \in returned, k \in Keys, tf \in BOOLEAN : TieredGetCall(rc, k, tf)
    \/ Idle /\ \E rc \in returned, k \in Keys, b \in Bytes, f \in WriteFaults :
         TieredSetBytesCall(rc, k, b, f[1], f[2])
    \/ Idle /\ \E rc \in returned, k \in Keys, v \in Values, f \in WriteFaults :
         \E encL \in EncodeResults(v), encR \in EncodeResults(v) :
           TieredSetCall(rc, k, v, encL, encR, f[1], f[2])
    \/ Idle /\ \E rc \in returned, p \in Patterns, f \in DeleteFaults : TieredDeleteCall(rc, p, f)
    \/ Idle /\ \E rc \in returned, f \in WriteFaults : TieredPurgeCall(rc, f[1], f[2])
    \/ Idle /\ \E cfg \in Configs, rf, af \in BOOLEAN, m \in MetricsArgs :
         NewCacheCall(cfg, rf, af, m)
    \/ Idle /\ CloseCall
    \/ Idle /\ \E t \in RemoteTypes : TieredCloseCall(t)

Spec == Init /\ [][Next]_vars

(***************************** SpecPool: NewCache and Close, step by step ***)
\* Goroutine p calls NewCache on configuration cfg.
NewCacheBegin(p, cfg) ==
    /\ pc[p] = "idle"
    /\ pc' = [pc EXCEPT ![p] = "ncLoad"]
    /\ frame' = [frame EXCEPT ![p] = cfg]
    /\ UNCHANGED <<local, remote, sharedCluster, pools, returned, teardowns, last>>

\* onceCreate.Do, fast path: load done; set means the call is over already.
OnceCreateLoad(p) ==
    /\ pc[p] = "ncLoad"
    /\ pc' = [pc EXCEPT ![p] = IF sharedCluster.onceCreate.done THEN "ncRefresh"
                                ELSE "ncLock"]
    /\ UNCHANGED <<local, remote, sharedCluster, pools, returned, teardowns, frame, last>>

\* onceCreate.Do, slow path: take the Once's mutex.
OnceCreateLock(p) ==
    /\ pc[p] = "ncLock"
    /\ ~sharedCluster.onceCreate.locked
    /\ sharedCluster' = [sharedCluster EXCEPT !.onceCreate.locked = TRUE]
    /\ pc' = [pc EXCEPT ![p] = "ncSlow"]
    /\ UNCHANGED <<local, remote, pools, returned, teardowns, frame, last>>

\* Variant of the slow path that does not look at done again under the mutex.
OnceCreateSlowNoRecheck(p) ==
    LET c == CreateCluster(sharedCluster, pools, frame[p])
    IN  /\ pc[p] = "ncSlow"
        /\ Len(pools) < MaxPools
        /\ sharedCluster' = [c.sc EXCEPT !.onceCreate = [done |-> TRUE, locked |-> FALSE]]
        /\ pools' = c.pools
        /\ pc' = [pc EXCEPT ![p] = "ncRefresh"]
        /\ UNCHANGED <<local, remote, returned, teardowns, frame, last>>

\* onceCreate.Do, slow path under the mutex: run f if done is still unset,
\* store done, unlock.
OnceCreateSlow(p) ==
    LET run == OnceShouldRun(sharedCluster.onceCreate)
        c == IF run THEN CreateCluster(sharedCluster, pools, frame[p])
             ELSE [sc |-> sharedCluster, pools |-> pools, panic |-> FALSE]
    IN  /\ pc[p] = "ncSlow"
        /\ run => Len(pools) < MaxPools
        /\ sharedCluster' = [c.sc EXCEPT !.onceCreate = [done |-> TRUE, locked |-> FALSE]]
        /\ pools' = c.pools
        /\ pc' = [pc EXCEPT ![p] = "ncRefresh"]
        /\ UNCHANGED <<local, remote, returned, teardowns, frame, last>>

\* The rest of NewCache: refresh, authenticate, return the RemoteCache.
NewCacheFinish(p, refreshFail, authFail, metrics) ==
    LET pool == pools[sharedCluster.cluster]
        err == AuthErr(pool, frame[p], RefreshErr(pool, refreshFail), authFail)
    IN  /\ pc[p] = "ncRefresh"
        /\ returned' = returned \cup {RemoteCacheValue(sharedCluster.cluster)}
        /\ last' = NewCacheLast(err, GobEncoder, metrics,
                                RemoteCacheStruct(sharedCluster.cluster, GobEncoder, metrics,
                                                  frame[p].TracingEnabled, err))
        /\ pc' = [pc EXCEPT ![p] = "idle"]
        /\ frame' = [frame EXCEPT ![p] = NoCfg]
        /\ UNCHANGED <<local, remote, sharedCluster, pools, teardowns>>

\* The RemoteCache values a goroutine can call Close on: those NewCache has
\* returned, and the zero value RemoteCache{}, which needs no NewCache.
Receivers == returned \cup {RemoteCacheValue(NilCluster)}

\* Goroutine p calls Close on one of these RemoteCache values (TieredCache.Close
\* passes its Remote on); the receiver is all the call has for arguments.
CloseBegin(p) ==
    /\ pc[p] = "idle"
    /\ pc' = [pc EXCEPT ![p] = "clLoad"]
    /\ \E rc \in Receivers : frame' = [frame EXCEPT ![p] = rc]
    /\ UNCHANGED <<local, remote, sharedCluster, pools, returned, teardowns, last>>

\* onceClose.Do, fast path: with done set Close returns at once.
OnceCloseLoad(p) ==
    /\ pc[p] = "clLoad"
    /\ IF sharedCluster.onceClose.done
       THEN /\ pc' = [pc EXCEPT ![p] = "idle"]
            /\ frame' = [frame EXCEPT ![p] = NoCfg]
            /\ last' = PoolLast("Close", NoErr, <<>>)
       ELSE /\ pc' = [pc EXCEPT ![p] = "clLock"]
            /\ frame' = frame
            /\ last' = last
    /\ UNCHANGED <<local, remote, sharedCluster, pools, returned, teardowns>>

OnceCloseLock(p) ==
    /\ pc[p] = "clLock"
    /\ ~sharedCluster.onceClose.locked
    /\ sharedCluster' = [sharedCluster EXCEPT !.onceClose.locked = TRUE]
    /\ pc' = [pc EXCEPT ![p] = "clSlow"]
    /\ UNCHANGED <<local, remote, pools, returned, teardowns, frame, last>>

\* Variant of the slow path that does not look at done again under the mutex.
OnceCloseSlowNoRecheck(p) ==
    LET c == CloseCluster(sharedCluster, pools)
        err == IF c.panic THEN Panic ELSE NoErr
    IN  /\ pc[p] = "clSlow"
        /\ sharedCluster' = [c.sc EXCEPT !.onceClose = [done |-> TRUE, locked |-> FALSE]]
        /\ pools' = c.pools
        /\ teardowns' = IF ~c.panic THEN Count(teardowns) ELSE teardowns
        /\ last' = PoolLast("Close", err, <<Call("Cluster", "Close", err)>>)
        /\ pc' = [pc EXCEPT ![p] = "idle"]
        /\ frame' = [frame EXCEPT ![p] = NoCfg]
        /\ UNCHANGED <<local, remote, returned>>

\* onceClose.Do, slow path under the mutex: run f if done is still unset (a
\* panic in f still stores done and unlocks), and Close returns.
OnceCloseSlow(p) ==
    LET run == OnceShouldRun(sharedCluster.onceClose)
        c == IF run THEN CloseCluster(sharedCluster, pools)
             ELSE [sc |-> sharedCluster, pools |-> pools, panic |-> FALSE]
        err == IF c.panic THEN Panic ELSE NoErr
    IN  /\ pc[p] = "clSlow"
        /\ sharedCluster' = [c.sc EXCEPT !.onceClose = [done |-> TRUE, locked |-> FALSE]]
        /\ pools' = c.pools
        /\ teardowns' = IF run /\ ~c.panic THEN Count(teardowns) ELSE teardowns
        /\ last' = PoolLast("Close", err,
                            IF run THEN <<Call("Cluster", "Close", err)>> ELSE <<>>)
        /\ pc' = [pc EXCEPT ![p] = "idle"]
        /\ frame' = [frame EXCEPT ![p] = NoCfg]
        /\ UNCHANGED <<local, remote, returned>>

(***************************** SpecPool: LocalCacheConfig.NewCache **********)
IsPowerOfTwo(n) == \E e \in 0..n : 2^e = n

\* bigcache.NewBigCache: the engine's constructor rejects a shard count that
\* is not a power of two; with Shards 0 the engine's default count is kept.
NewBigCacheErr(shards) ==
    IF shards # 0 /\ ~IsPowerOfTwo(shards)
    THEN Err("Local", "ErrEngineShards") ELSE NoErr

\* LocalCacheConfig.NewCache: the error returned and the engine calls made.
LocalNewCache(shards) ==
    IF shards # 0 /\ shards % 2 # 0
    THEN [err |-> Err("Local", "ErrConfig"), calls |-> <<>>]
    ELSE [err |-> NewBigCacheErr(shards),
          calls |-> <<Call("bigcache", "NewBigCache", NewBigCacheErr(shards))>>]

\* A caller builds a LocalCache; last.bytes carries the Shards it passed.
LocalNewCacheCall(shards) ==
    LET res == LocalNewCache(shards)
    IN  /\ last' = Last("Local.NewCache", NoKey, NoValue, <<"Shards", shards>>, res.err,
                        NilBytes, NoValue, res.calls, <<>>)
        /\ UNCHANGED <<local, remote, poolVars>>

(***************************** SpecTiered: TieredCacheConfig.NewCache *******)
\* The zero value TieredCache{} and a TieredCache with its four fields.
ZeroTieredCache == <<"TieredCache", "nil", "nil", NilMetrics, FALSE>>
TieredCacheStruct(rcs, lcs, metrics, tracing) == <<"TieredCache", rcs, lcs, metrics, tracing>>

\* The LocalCache a successful LocalCacheConfig.NewCache returns: engine,
\* Encoder, Metrics, TracingEnabled.
LocalCacheStruct(encoder, metrics, tracing) ==
    <<"LocalCache", "bigcache", encoder, metrics, tracing>>

\* The TieredCacheConfig values callers pass: a RemoteCacheConfig, the Shards
\* of the LocalCacheConfig, and the TracingEnabled of the TieredCache (here
\* the one of the remote configuration).
TieredConfig(cfg, shards) ==
    [RemoteConfig |-> cfg, LocalConfig |-> [Shards |-> shards, TracingEnabled |-> FALSE],
     TracingEnabled |-> cfg.TracingEnabled]

\* Variant that tidies up: when the Local step fails it closes the pool.
TieredNewCacheCleansUp(sc, ps, tcc, refreshFail, authFail, metrics) ==
    LET run == OnceShouldRun(sc.onceCreate)
        c == IF run THEN CreateCluster(sc, ps, tcc.RemoteConfig)
             ELSE [sc |-> sc, pools |-> ps, panic |-> FALSE]
        sc2 == [c.sc EXCEPT !.onceCreate.done = TRUE]
        pool == c.pools[sc2.cluster]
        rerr == AuthErr(pool, tcc.RemoteConfig, RefreshErr(pool, refreshFail), authFail)
        lo == LocalNewCache(tcc.LocalConfig.Shards)
    IN  IF rerr # NoErr
        THEN [sc |-> sc2, pools |-> c.pools, err |-> rerr, data |-> ZeroTieredCache,
              calls |-> <<Call("Remote", "NewCache", rerr)>>]
        ELSE IF lo.err # NoErr
        THEN [sc |-> sc2, pools |-> [c.pools EXCEPT ![sc2.cluster].closed = TRUE],
              err |-> lo.err, data |-> ZeroTieredCache,
              calls |-> <<Call("Remote", "NewCache", rerr), Call("Local", "NewCache", lo.err)>>]
        ELSE [sc |-> sc2, pools |-> c.pools, err |-> NoErr,
              data |-> TieredCacheStruct(
                          RemoteCacheStruct(sc2.cluster, GobEncoder, metrics,
                                            tcc.RemoteConfig.TracingEnabled, rerr),
                          LocalCacheStruct(GobEncoder, metrics, tcc.LocalConfig.TracingEnabled),
                          metrics, tcc.TracingEnabled),
              calls |-> <<Call("Remote", "NewCache", rerr), Call("Local", "NewCache", lo.err)>>]

\* TieredCacheConfig.NewCache from package state sc, ps: the Remote step
\* (RemoteCacheConfig.NewCache: Once, refresh, auth), then the Local step
\* unless the Remote step failed, then the TieredCache of both. The result
\* is the package state after the call, the error and TieredCache returned,
\* and the tier constructors called.
TieredNewCache(sc, ps, tcc, refreshFail, authFail, metrics) ==
    LET run == OnceShouldRun(sc.onceCreate)
        c == IF run THEN CreateCluster(sc, ps, tcc.RemoteConfig)
             ELSE [sc |-> sc, pools |-> ps, panic |-> FALSE]
        sc2 == [c.sc EXCEPT !.onceCreate.done = TRUE]
        pool == c.pools[sc2.cluster]
        rerr == AuthErr(pool, tcc.RemoteConfig, RefreshErr(pool, refreshFail), authFail)
        lo == LocalNewCache(tcc.LocalConfig.Shards)
    IN  IF rerr # NoErr
        THEN [sc |-> sc2, pools |-> c.pools, err |-> rerr, data |-> ZeroTieredCache,
              calls |-> <<Call("Remote", "NewCache", rerr)>>]
        ELSE IF lo.err # NoErr
        THEN [sc |-> sc2, pools |-> c.pools, err |-> lo.err, data |-> ZeroTieredCache,
              calls |-> <<Call("Remote", "NewCache", rerr), Call("Local", "NewCache", lo.err)>>]
        ELSE [sc |-> sc2, pools |-> c.pools, err |-> NoErr,
              data |-> TieredCacheStruct(
                          RemoteCacheStruct(sc2.cluster, GobEncoder, metrics,
                                            tcc.RemoteConfig.TracingEnabled, rerr),
                          LocalCacheStruct(GobEncoder, metrics, tcc.LocalConfig.TracingEnabled),
                          metrics, tcc.TracingEnabled),
              calls |-> <<Call("Remote", "NewCache", rerr), Call("Local", "NewCache", lo.err)>>]

\* One caller runs TieredCacheConfig.NewCache from start to end. The caller
\* holds the Remote of the TieredCache it gets, when it gets one.
TieredNewCacheCall(cfg, shards, refreshFail, authFail) ==
    LET res == TieredNewCache(sharedCluster, pools, TieredConfig(cfg, shards), refreshFail,
                              authFail, NilMetrics)
    IN  /\ OnceShouldRun(sharedCluster.onceCreate) => Len(pools) < MaxPools
        /\ sharedCluster' = res.sc
        /\ pools' = res.pools
        /\ returned' = IF res.err = NoErr
                       THEN returned \cup {RemoteCacheValue(res.sc.cluster)} ELSE returned
        /\ last' = [PoolLast("Tiered.NewCache", res.err, res.calls) EXCEPT !.data = res.data]
        /\ UNCHANGED <<local, remote, teardowns, pc, frame>>

\* A process that builds caches and closes them, one call at a time, from
\* the state in which no pool has been built.
NextTiered ==
    \/ \E cfg \in Configs, n \in 0..MaxShards, rf, af \in BOOLEAN :
         TieredNewCacheCall(cfg, n, rf, af)
    \/ \E cfg \in Configs, rf, af \in BOOLEAN, m \in MetricsArgs :
         NewCacheCall(cfg, rf, af, m)
    \/ \E n \in 0..MaxShards : LocalNewCacheCall(n)
    \/ CloseCall

SpecTiered == InitPool /\ [][NextTiered]_vars

NextPool ==
    \/ \E p \in Procs, cfg \in Configs : NewCacheBegin(p, cfg)
    \/ \E p \in Procs : OnceCreateLoad(p)
    \/ \E p \in Procs : OnceCreateLock(p)
    \/ \E p \in Procs : OnceCreateSlow(p)
    \/ \E p \in Procs, rf, af \in BOOLEAN, m \in MetricsArgs : NewCacheFinish(p, rf, af, m)
    \/ \E p \in Procs : CloseBegin(p)
    \/ \E p \in Procs : OnceCloseLoad(p)
    \/ \E p \in Procs : OnceCloseLock(p)
    \/ \E p \in Procs : OnceCloseSlow(p)
    \/ \E n \in 0..MaxShards : LocalNewCacheCall(n)

SpecPool == InitPool /\ [][NextPool]_vars

(***************************** SpecClients **********************************)
\* Goroutines that each make one call on the same TieredCache, a tiered Set or
\* a remote Delete, with their tier calls and Redis commands interleaved.
\* The two values the callers set, one-entry maps, and the patterns they
\* delete by, each matching several of the keys.
MapW == [kind |-> "map", m |-> {<<3, 7>>}]
MapX == [kind |-> "map", m |-> {<<4, 8>>}]
SetValues == {MapW, MapX}
BatchPatterns == {<<"f", "*">>, <<"*">>}

\* A goroutine's locals: the call, its arguments, the keys KEYS returned, the
\* keys whose DEL is still to be sent, the error so far, the counters recorded.
Frame(op, key, val, matched, todo, err, rec) ==
    [op |-> op, key |-> key, val |-> val, matched |-> matched, todo |-> todo,
     err |-> err, rec |-> rec]
NoFrame == Frame("none", NoKey, NoValue, {}, {}, NoErr, <<>>)

\* The stores some time into the program's life: Remote holds any of the keys.
InitClients ==
    /\ \E S \in SUBSET Keys :
          remote = [k \in S |-> CHOOSE b \in Encodings(MapW) : TRUE]
    /\ local = EmptyStore
    /\ sharedCluster = [cluster |-> 1,
                        onceCreate |-> [done |-> TRUE, locked |-> FALSE],
                        onceClose |-> NewOnce]
    /\ pools = <<[StartupNodes |-> CfgA.URLs, Timeout |-> CfgA.Timeout, closed |-> FALSE]>>
    /\ returned = {RemoteCacheValue(1)}
    /\ teardowns = 0
    /\ pc = [p \in Procs |-> "idle"]
    /\ frame = [p \in Procs |-> NoFrame]
    /\ last = NoLast

clientFixed == <<sharedCluster, pools, returned, teardowns, last>>

\* TieredCache.Set, first half: tc.Local.Set, one engine call under its lock.
TsLocal(p, key, v, enc, engineFail) ==
    LET lo == LocalSet(local, key, enc, engineFail)
    IN  /\ pc[p] = "idle"
        /\ local' = lo.store
        /\ frame' = [frame EXCEPT ![p] =
              Frame("Tiered.Set", key, v, {}, {}, lo.err,
                    IF lo.err = NoErr THEN lo.rec
                    ELSE lo.rec \o <<Rec("Tiered", "SetCollision")>>)]
        /\ pc' = [pc EXCEPT ![p] = IF lo.err = NoErr THEN "tsRemote" ELSE "tsDone"]
        /\ UNCHANGED <<remote, clientFixed>>

\* Variant that keeps the tiers in step: Remote is given the bytes Local holds
\* for the key at that moment.
TsRemoteFromLocal(p, transportFail) ==
    /\ pc[p] = "tsRemote"
    /\ \E enc \in EncodeResults(frame[p].val) :
         LET k == frame[p].key
             re == RemoteSet(remote, ConnErr(pools[1], transportFail), k,
                             IF k \in DOMAIN local THEN local[k] ELSE enc)
         IN
        /\ remote' = re.store
        /\ frame' = [frame EXCEPT ![p].err = re.err,
                                  ![p].rec = @ \o re.rec \o
                                     <<Rec("Tiered", IF re.err = NoErr THEN "Set"
                                                     ELSE "SetCollision")>>]
        /\ pc' = [pc EXCEPT ![p] = "tsDone"]
        /\ UNCHANGED <<local, clientFixed>>

\* TieredCache.Set, second half: tc.Remote.Set, one SET command, and the
\* counter on TieredCache's Metrics.
TsRemote(p, transportFail) ==
    /\ pc[p] = "tsRemote"
    /\ \E enc \in EncodeResults(frame[p].val) :
         LET re == RemoteSet(remote, ConnErr(pools[1], transportFail), frame[p].key, enc)
         IN
        /\ remote' = re.store
        /\ frame' = [frame EXCEPT ![p].err = re.err,
                                  ![p].rec = @ \o re.rec \o
                                     <<Rec("Tiered", IF re.err = NoErr THEN "Set"
                                                     ELSE "SetCollision")>>]
        /\ pc' = [pc EXCEPT ![p] = "tsDone"]
        /\ UNCHANGED <<local, clientFixed>>

\* RemoteCache.Delete: the KEYS round trip; then MULTI goes into the
\* connection's buffer and the counter is recorded.
RdKeys(p, pattern, transportFail, keysReplyErr) ==
    LET cerr == ConnErr(pools[1], transportFail)
        keysToDelete == IF cerr # NoErr \/ keysReplyErr THEN {}
                        ELSE {k \in DOMAIN remote : GlobMatch(pattern, k)}
    IN  /\ pc[p] = "idle"
        /\ transportFail => ~keysReplyErr
        /\ frame' = [frame EXCEPT ![p] =
              Frame("Remote.Delete", pattern, NoValue, keysToDelete, keysToDelete,
                    cerr,
                    IF cerr # NoErr \/ keysToDelete = {}
                    THEN <<Rec("Remote", "DeleteMiss")>>
                    ELSE <<Rec("Remote", "DeleteHit")>>)]
        /\ pc' = [pc EXCEPT ![p] = "rdSend"]
        /\ UNCHANGED <<local, remote, clientFixed>>

\* The loop over keysToDelete takes the keys in the order of the reply.
KeyIndex(k) == CHOOSE i \in 1..NumKeys : KeyName(i) = k
NextKey(todo) == CHOOSE k \in todo : \A j \in todo : KeyIndex(k) <= KeyIndex(j)

\* Variant without the transaction: the DEL is carried out as it is sent.
RdSendDelApplies(p, k) ==
    /\ pc[p] = "rdSend"
    /\ frame[p].todo # {}
    /\ k = NextKey(frame[p].todo)
    /\ frame' = [frame EXCEPT ![p].todo = @ \ {k}]
    /\ remote' = IF frame[p].err = NoErr THEN Drop(remote, {k}) ELSE remote
    /\ UNCHANGED <<local, pc, clientFixed>>

\* RemoteCache.Delete: one DEL is sent, for the next key of the KEYS reply;
\* inside MULTI the server queues it.
RdSendDel(p, k) ==
    /\ pc[p] = "rdSend"
    /\ frame[p].todo # {}
    /\ k = NextKey(frame[p].todo)
    /\ frame' = [frame EXCEPT ![p].todo = @ \ {k}]
    /\ UNCHANGED <<local, remote, pc, clientFixed>>

\* Variant whose EXEC deletes by the pattern: every key matching it at that
\* moment goes.
RdExecRematches(p, execFail) ==
    LET err == IF frame[p].err # NoErr THEN frame[p].err
               ELSE IF execFail THEN Err("Remote", "ErrConn") ELSE NoErr
    IN  /\ pc[p] = "rdSend"
        /\ frame[p].todo = {}
        /\ frame[p].err # NoErr => ~execFail
        /\ remote' = IF err = NoErr
                     THEN Drop(remote, {k \in DOMAIN remote : GlobMatch(frame[p].key, k)})
                     ELSE remote
        /\ frame' = [frame EXCEPT ![p].err = err]
        /\ pc' = [pc EXCEPT ![p] = "rdDone"]
        /\ UNCHANGED <<local, clientFixed>>

\* RemoteCache.Delete: EXEC carries out the queued DELs in one step.
RdExec(p, execFail) ==
    LET err == IF frame[p].err # NoErr THEN frame[p].err
               ELSE IF execFail THEN Err("Remote", "ErrConn") ELSE NoErr
    IN  /\ pc[p] = "rdSend"
        /\ frame[p].todo = {}
        /\ frame[p].err # NoErr => ~execFail
        /\ remote' = IF err = NoErr THEN Drop(remote, frame[p].matched) ELSE remote
        /\ frame' = [frame EXCEPT ![p].err = err]
        /\ pc' = [pc EXCEPT ![p] = "rdDone"]
        /\ UNCHANGED <<local, clientFixed>>

NextClients ==
    \/ \E p \in Procs, k \in Keys, v \in SetValues, ef \in BOOLEAN :
         \E enc \in EncodeResults(v) : TsLocal(p, k, v, enc, ef)
    \/ \E p \in Procs, tf \in BOOLEAN : TsRemote(p, tf)
    \/ \E p \in Procs, pt \in BatchPatterns, tf, ke \in BOOLEAN : RdKeys(p, pt, tf, ke)
    \/ \E p \in Procs, k \in Keys : RdSendDel(p, k)
    \/ \E p \in Procs, ef \in BOOLEAN : RdExec(p, ef)

SpecClients == InitClients /\ [][NextClients]_vars

(***************************** SpecMetrics **********************************)
\* The program run twice on the same calls: once on caches that all have a
\* Metrics (local, remote, last), once on caches of which some have a nil
\* Metrics (the twin, in frame).  Calls do not overlap, as in Spec.
Owners == {"Local", "Remote", "Tiered"}

\* Variant without the nil test: recording on a nil Metrics panics.
WithMetricsUnguarded(present, res) ==
    IF \E i \in 1..Len(res.rec) : res.rec[i][1] \notin present
    THEN [res EXCEPT !.err = Panic, !.rec = <<>>]
    ELSE res

\* if x.Metrics != nil { ... }: of the counters a call reaches, those of the
\* caches in present are recorded and the others skipped.
WithMetrics(present, res) ==
    LET Recorded(c) == c[1] \in present
    IN  [res EXCEPT !.rec = SelectSeq(res.rec, Recorded)]

\* The twin: its two stores and what its last call returned and recorded.
Twin(l, r, err, data, target, rec) ==
    [local |-> l, remote |-> r, err |-> err, data |-> data, target |-> target,
     rec |-> rec]

\* Both programs start from the same stores; a key may hold bytes that a
\* SetBytes put there and that do not decode.
InitMetrics ==
    /\ \E S, T \in SUBSET Keys :
          /\ local = [k \in S |-> Garbage]
          /\ remote = [k \in T |-> Garbage]
    /\ frame = Twin(local, remote, NoErr, NilBytes, NoValue, <<>>)
    /\ sharedCluster = [cluster |-> 1,
                        onceCreate |-> [done |-> TRUE, locked |-> FALSE],
                        onceClose |-> NewOnce]
    /\ pools = <<[StartupNodes |-> CfgA.URLs, Timeout |-> CfgA.Timeout, closed |-> FALSE]>>
    /\ returned = {RemoteCacheValue(1)}
    /\ teardowns = 0
    /\ pc = [p \in Procs |-> "idle"]
    /\ last = NoLast

\* One call made on both programs: a is the result with every Metrics set, b
\* the twin's; lastA reports a.
TwinCall(lastA, l2, r2, lt, rt, b) ==
    /\ local' = l2
    /\ remote' = r2
    /\ last' = lastA
    /\ frame' = Twin(lt, rt, b.err, b.data, b.target, b.rec)
    /\ UNCHANGED <<sharedCluster, pools, returned, teardowns, pc>>

TwinReturn ==
    /\ ~Idle
    /\ last' = NoLast
    /\ frame' = Twin(frame.local, frame.remote, NoErr, NilBytes, NoValue, <<>>)
    /\ UNCHANGED <<local, remote, sharedCluster, pools, returned, teardowns, pc>>

TwinLocalGet(present, key) ==
    LET a == LocalGet(local, key)
        b == WithMetrics(present, LocalGet(frame.local, key))
    IN  TwinCall(LeafLast("Local.Get", key, NoValue, NilBytes, a),
                 a.store, remote, b.store, frame.remote, b)

\* Both programs run the same Encode, so both get what it returns.
TwinLocalSet(present, key, v, engineFail) ==
    \E enc \in EncodeResults(v) :
        LET a == LocalSet(local, key, enc, engineFail)
            b == WithMetrics(present, LocalSet(frame.local, key, enc, engineFail))
        IN  TwinCall(LeafLast("Local.Set", key, v, NilBytes, a),
                     a.store, remote, b.store, frame.remote, b)

TwinLocalDelete(present, key) ==
    LET a == LocalDelete(local, key)
        b == WithMetrics(present, LocalDelete(frame.local, key))
    IN  TwinCall(LeafLast("Local.Delete", key, NoValue, NilBytes, a),
                 a.store, remote, b.store, frame.remote, b)

TwinLocalPurge(present, engineFail) ==
    LET a == LocalPurge(local, engineFail)
        b == WithMetrics(present, LocalPurge(frame.local, engineFail))
    IN  TwinCall(LeafLast("Local.Purge", NoKey, NoValue, NilBytes, a),
                 a.store, remote, b.store, frame.remote, b)

TwinRemoteGet(present, key, transportFail) ==
    LET cerr == ConnErr(pools[1], transportFail)
        a == RemoteGet(remote, cerr, key)
        b == WithMetrics(present, RemoteGet(frame.remote, cerr, key))
    IN  TwinCall(LeafLast("Remote.Get", key, NoValue, NilBytes, a),
                 local, a.store, frame.local, b.store, b)

TwinRemoteSet(present, key, v, transportFail) ==
    \E enc \in EncodeResults(v) :
        LET cerr == ConnErr(pools[1], transportFail)
            a == RemoteSet(remote, cerr, key, enc)
            b == WithMetrics(present, RemoteSet(frame.remote, cerr, key, enc))
        IN  TwinCall(LeafLast("Remote.Set", key, v, NilBytes, a),
                     local, a.store, frame.local, b.store, b)

TwinRemoteDelete(present, pattern, f) ==
    LET cerr == ConnErr(pools[1], f[1])
        a == RemoteDelete(remote, cerr, f[2], f[3], pattern)
        b == WithMetrics(present, RemoteDelete(frame.remote, cerr, f[2], f[3], pattern))
    IN  TwinCall(LeafLast("Remote.Delete", pattern, NoValue, NilBytes, a),
                 local, a.store, frame.local, b.store, b)

TwinRemotePurge(present, transportFail) ==
    LET cerr == ConnErr(pools[1], transportFail)
        a == RemotePurge(remote, cerr)
        b == WithMetrics(present, RemotePurge(frame.remote, cerr))
    IN  TwinCall(LeafLast("Remote.Purge", NoKey, NoValue, NilBytes, a),
                 local, a.store, frame.local, b.store, b)

TwinTieredGet(present, key, transportFail) ==
    LET cerr == ConnErr(pools[1], transportFail)
        a == TieredGet(local, remote, cerr, key)
        b == WithMetrics(present, TieredGet(frame.local, frame.remote, cerr, key))
    IN  TwinCall(TieredLast("Tiered.Get", key, NoValue, NilBytes, a),
                 a.local, a.remote, b.local, b.remote, b)

TwinTieredSet(present, key, v, engineFail, transportFail) ==
    \E encL, encR \in EncodeResults(v) :
        LET cerr == ConnErr(pools[1], transportFail)
            a == TieredSet(local, remote, cerr, key, encL, encR, engineFail)
            b == WithMetrics(present, TieredSet(frame.local, frame.remote, cerr, key, encL, encR,
                                                engineFail))
        IN  TwinCall(TieredLast("Tiered.Set", key, v, NilBytes, a),
                     a.local, a.remote, b.local, b.remote, b)

TwinTieredDelete(present, key, f) ==
    LET cerr == ConnErr(pools[1], f[1])
        a == TieredDelete(local, remote, cerr, f[2], f[3], key)
        b == WithMetrics(present, TieredDelete(frame.local, frame.remote, cerr, f[2], f[3], key))
    IN  TwinCall(TieredLast("Tiered.Delete", key, NoValue, NilBytes, a),
                 a.local, a.remote, b.local, b.remote, b)

TwinTieredPurge(present, engineFail, transportFail) ==
    LET cerr == ConnErr(pools[1], transportFail)
        a == TieredPurge(local, remote, cerr, engineFail)
        b == WithMetrics(present, TieredPurge(frame.local, frame.remote, cerr, engineFail))
    IN  TwinCall(TieredLast("Tiered.Purge", NoKey, NoValue, NilBytes, a),
                 a.local, a.remote, b.local, b.remote, b)

\* What the callers set: a value with one encoding and one that does not encode.
MetricsValues == {MapW, NilV}

NextMetrics ==
    \/ TwinReturn
    \/ Idle /\ \E m \in SUBSET Owners, k \in Keys : TwinLocalGet(m, k)
    \/ Idle /\ \E m \in SUBSET Owners, k \in Keys, v \in MetricsValues, ef \in BOOLEAN :
                  TwinLocalSet(m, k, v, ef)
    \/ Idle /\ \E m \in SUBSET Owners, k \in Keys : TwinLocalDelete(m, k)
    \/ Idle /\ \E m \in SUBSET Owners, ef \in BOOLEAN : TwinLocalPurge(m, ef)
    \/ Idle /\ \E m \in SUBSET Owners, k \in Keys, tf \in BOOLEAN : TwinRemoteGet(m, k, tf)
    \/ Idle /\ \E m \in SUBSET Owners, k \in Keys, v \in MetricsValues, tf \in BOOLEAN :
                  TwinRemoteSet(m, k, v, tf)
    \/ Idle /\ \E m \in SUBSET Owners, p \in Patterns, f \in DeleteFaults :
                  TwinRemoteDelete(m, p, f)
    \/ Idle /\ \E m \in SUBSET Owners, tf \in BOOLEAN : TwinRemotePurge(m, tf)
    \/ Idle /\ \E m \in SUBSET Owners, k \in Keys, tf \in BOOLEAN : TwinTieredGet(m, k, tf)
    \/ Idle /\ \E m \in SUBSET Owners, k \in Keys, v \in MetricsValues, f \in WriteFaults :
                  TwinTieredSet(m, k, v, f[1], f[2])
    \/ Idle /\ \E m \in SUBSET Owners, p \in Patterns, f \in DeleteFaults :
                  TwinTieredDelete(m, p, f)
    \/ Idle /\ \E m \in SUBSET Owners, f \in WriteFaults : TwinTieredPurge(m, f[1], f[2])

SpecMetrics == InitMetrics /\ [][NextMetrics]_vars

(***************************** SpecConns ************************************)
\* The remote tier's methods at the grain of their calls on the span, the
\* cluster and the connection, run by several goroutines at once. Here a pool
\* also counts the connections it has handed out that are not yet closed
\* (active), frame[p] holds a goroutine's locals, and last is left alone.

\* One call a method made on a collaborator.
Ev(obj, method, arg) == [obj |-> obj, method |-> method, arg |-> arg]

\* A goroutine's locals: the method, the receiver's TracingEnabled, the
\* error so far, the calls it made, its deferred calls. The key or pattern
\* is not kept: it is read once, when the command is sent.
CFrame(op, tracing, err, calls, deferred) ==
    [op |-> op, tracing |-> tracing, err |-> err, calls |-> calls, deferred |-> deferred]
NoCFrame == CFrame("none", FALSE, NoErr, <<>>, <<>>)

ConnOps == {"GetBytes", "SetBytes", "Delete", "Purge"}

\* The byte string SetBytes callers pass and the stores hold.
ConnBytes == CHOOSE b \in Encodings(MapW) : TRUE

\* The arguments of each method: a key, a pattern, or nothing.
ConnArgs(op) ==
    IF op = "Purge" THEN {NoKey}
    ELSE IF op = "Delete" THEN Keys \cup {<<"*">>}
    ELSE Keys

\* if rc.TracingEnabled { span, _ = StartSpanFromContext(...); SetTag... }
SpanStart(tracing) ==
    IF tracing THEN <<Ev("Span", "Start", "")>> ELSE <<>>

\* The value each method gives the span's "result" tag.
ResultTag(op, err) ==
    IF op = "GetBytes" THEN (IF err # NoErr THEN "miss" ELSE "hit")
    ELSE IF op = "SetBytes" THEN (IF err # NoErr THEN "fail" ELSE "set")
    ELSE IF op = "Delete" THEN (IF err # NoErr THEN "fail" ELSE "delete")
    ELSE (IF err # NoErr THEN "fail" ELSE "purge")

\* Variant that finishes the span only when the command succeeded.
SpanEndOnSuccess(tracing, op, err) ==
    IF ~tracing THEN <<>>
    ELSE IF err # NoErr THEN <<Ev("Span", "SetTag.result", ResultTag(op, err))>>
    ELSE <<Ev("Span", "SetTag.result", ResultTag(op, err)), Ev("Span", "Finish", "")>>

\* if rc.TracingEnabled { span.SetTag("result", ...); span.Finish() }
SpanEnd(tracing, op, err) ==
    IF tracing
    THEN <<Ev("Span", "SetTag.result", ResultTag(op, err)), Ev("Span", "Finish", "")>>
    ELSE <<>>

\* Variant that takes the connection and does not defer its Close.
GetConnNoDefer(fr) ==
    [fr EXCEPT !.calls = Append(@, Ev("Cluster", "Get", ""))]

\* conn := rc.cluster.Get(); defer conn.Close()
GetConn(fr) ==
    [fr EXCEPT !.calls = Append(@, Ev("Cluster", "Get", "")),
               !.deferred = <<Ev("Conn", "Close", "")>> \o @]

\* The pool after handing out one connection, and after n were closed.
PoolGet(pool) == [pool EXCEPT !.active = @ + 1]
PoolPut(pool, n) == [pool EXCEPT !.active = @ - n]

\* The commands of each method on its connection and what they do to the
\* store: the result of the remote tier's method, with the calls it made.
ConnCommands(op, r, cerr, arg, keysReplyErr, execFail) ==
    IF op = "GetBytes"
    THEN [res |-> RemoteGetBytes(r, cerr, arg), calls |-> <<Ev("Conn", "Do", "GET")>>]
    ELSE IF op = "SetBytes"
    THEN [res |-> RemoteSetBytes(r, cerr, arg, ConnBytes), calls |-> <<Ev("Conn", "Do", "SET")>>]
    ELSE IF op = "Delete"
    THEN [res |-> RemoteDelete(r, cerr, keysReplyErr, execFail, arg),
          calls |-> <<Ev("Conn", "Do", "KEYS"), Ev("Conn", "Send", "MULTI"),
                      Ev("Conn", "Do", "EXEC")>>]
    ELSE [res |-> RemotePurge(r, cerr), calls |-> <<Ev("Conn", "Do", "FLUSHALL")>>]

\* The program some time into its life: the pool is built, and either open
\* or already closed by a Close; Remote holds any of the keys; no connection
\* is out.
InitConns ==
    /\ \E S \in SUBSET Keys : remote = [k \in S |-> ConnBytes]
    /\ local = EmptyStore
    /\ \E closed \in BOOLEAN :
          /\ sharedCluster = [cluster |-> 1,
                              onceCreate |-> [done |-> TRUE, locked |-> FALSE],
                              onceClose |-> [done |-> closed, locked |-> FALSE]]
          /\ pools = <<[StartupNodes |-> CfgA.URLs, Timeout |-> CfgA.Timeout,
                        closed |-> closed, active |-> 0]>>
          /\ teardowns = IF closed THEN 1 ELSE 0
    /\ returned = {RemoteCacheValue(1)}
    /\ pc = [p \in Procs |-> "idle"]
    /\ frame = [p \in Procs |-> NoCFrame]
    /\ last = NoLast

\* GetBytes, SetBytes, Delete, Purge up to the connection: the span is
\* started when the receiver traces, the connection is taken from the
\* cluster and its Close deferred.
ConnEnter(p, op, tracing) ==
    /\ pc[p] = "idle"
    /\ frame' = [frame EXCEPT
                    ![p] = GetConn(CFrame(op, tracing, NoErr, SpanStart(tracing), <<>>))]
    /\ pools' = [pools EXCEPT ![sharedCluster.cluster] = PoolGet(@)]
    /\ pc' = [pc EXCEPT ![p] = "cnHeld"]
    /\ UNCHANGED <<local, remote, sharedCluster, returned, teardowns, last>>

\* RemoteCacheConfig.NewCache once the pool is built: the Once is skipped,
\* the topology refreshed, and only with a token and a good refresh is a
\* connection taken for AUTH.
ConnNewCacheEnter(p, cfg, refreshFail) ==
    LET pool == pools[sharedCluster.cluster]
        err == RefreshErr(pool, refreshFail)
        fr == CFrame("NewCache", FALSE, err, <<>>, <<>>)
    IN  /\ pc[p] = "idle"
        /\ sharedCluster.onceCreate.done
        /\ IF err = NoErr /\ cfg.AuthToken # ""
           THEN /\ frame' = [frame EXCEPT ![p] = GetConn(fr)]
                /\ pools' = [pools EXCEPT ![sharedCluster.cluster] = PoolGet(@)]
                /\ pc' = [pc EXCEPT ![p] = "cnHeld"]
           ELSE /\ frame' = [frame EXCEPT ![p] = fr]
                /\ pools' = pools
                /\ pc' = [pc EXCEPT ![p] = "cnDefer"]
        /\ UNCHANGED <<local, remote, sharedCluster, returned, teardowns, last>>

\* The method's commands on its connection, then the result tag and Finish
\* of its span; NewCache sends AUTH. The transport can fail; Delete's KEYS
\* reply can be an error and its EXEC can fail; AUTH can be refused (execFail).
ConnRun(p, transportFail, keysReplyErr, execFail) ==
    LET fr == frame[p]
        pool == pools[sharedCluster.cluster]
        cerr == ConnErr(pool, transportFail)
        aerr == IF cerr # NoErr THEN cerr
                ELSE IF execFail THEN Err("Remote", "ErrAuth") ELSE NoErr
    IN  /\ pc[p] = "cnHeld"
        /\ keysReplyErr => fr.op = "Delete"
        /\ execFail => fr.op \in {"Delete", "NewCache"}
        /\ IF fr.op = "NewCache"
           THEN /\ remote' = remote
                /\ frame' = [frame EXCEPT ![p].err = aerr,
                                          ![p].calls = Append(@, Ev("Conn", "Do", "AUTH"))]
           ELSE \E arg \in ConnArgs(fr.op) :
                   LET c == ConnCommands(fr.op, remote, cerr, arg, keysReplyErr, execFail)
                   IN  /\ remote' = c.res.store
                       /\ frame' = [frame EXCEPT
                                       ![p].err = c.res.err,
                                       ![p].calls = @ \o c.calls
                                                      \o SpanEnd(fr.tracing, fr.op, c.res.err)]
        /\ pc' = [pc EXCEPT ![p] = "cnDefer"]
        /\ UNCHANGED <<local, sharedCluster, pools, returned, teardowns, last>>

\* The return: the deferred calls run, each conn.Close giving its connection
\* back, and the goroutine's frame is gone.
ConnLeave(p) ==
    /\ pc[p] = "cnDefer"
    /\ pools' = [pools EXCEPT ![sharedCluster.cluster] = PoolPut(@, Len(frame[p].deferred))]
    /\ frame' = [frame EXCEPT ![p] = NoCFrame]
    /\ pc' = [pc EXCEPT ![p] = "idle"]
    /\ UNCHANGED <<local, remote, sharedCluster, returned, teardowns, last>>

NextConns ==
    \/ \E p \in Procs, op \in ConnOps, t \in BOOLEAN : ConnEnter(p, op, t)
    \/ \E p \in Procs, cfg \in Configs, rf \in BOOLEAN : ConnNewCacheEnter(p, cfg, rf)
    \/ \E p \in Procs, tf, ke, ef \in BOOLEAN : ConnRun(p, tf, ke, ef)
    \/ \E p \in Procs : ConnLeave(p)

SpecConns == InitConns /\ [][NextConns]_vars

TieredReads == {"Tiered.GetBytes", "Tiered.Get"}
TieredWrites == {"Tiered.SetBytes", "Tiered.Set"}
ReadOps == {"Local.GetBytes", "Local.Get", "Remote.GetBytes", "Remote.Get"} \cup TieredReads

\* The method of the tier that a TieredCache method delegates to.
Method(op) ==
    CASE op = "Tiered.GetBytes" -> "GetBytes"
      [] op = "Tiered.Get" -> "Get"
      [] op = "Tiered.SetBytes" -> "SetBytes"
      [] op = "Tiered.Set" -> "Set"
      [] op = "Tiered.Delete" -> "Delete"
      [] OTHER -> "Purge"

\* What a read of key on a tier holding store s can return with error err.
ReadOf(s, key, op) ==
    IF last.err # NoErr THEN last.data = NilBytes /\ last.target = NoValue
    ELSE /\ key \in DOMAIN s
         /\ IF op = "Tiered.GetBytes"
            THEN last.data = s[key]
            ELSE /\ Decode(s[key], "none").err = NoErr
                 /\ last.target = Decode(s[key], "none").value

\* C1: a tiered GetBytes / Get calls Local first; if Local returns no error
\* the result is Local's and Remote is not called; if Local returns an error
\* Remote is called and the result, bytes and error, is Remote's.
C1_FallbackRead ==
    last.op \in TieredReads =>
        /\ Len(last.calls) >= 1
        /\ last.calls[1].tier = "Local"
        /\ last.calls[1].method = Method(last.op)
        /\ last.calls[1].err = NoErr =>
              /\ Len(last.calls) = 1
              /\ last.err = NoErr
              /\ ReadOf(local, last.key, last.op)
        /\ last.calls[1].err # NoErr =>
              /\ last.calls[1].err.src = "Local"
              /\ Len(last.calls) = 2
              /\ last.calls[2].tier = "Remote"
              /\ last.calls[2].method = Method(last.op)
              /\ last.err = last.calls[2].err
              /\ last.err # NoErr => last.err.src = "Remote"
              /\ ReadOf(remote, last.key, last.op)

\* C1's case: Local holds bytes that do not decode, Remote serves the Get.
C1_Witness ==
    /\ last.op = "Tiered.Get"
    /\ Len(last.calls) = 2
    /\ last.calls[1].err.kind = "ErrDecode"
    /\ last.err = NoErr
    /\ last.target = MapV

\* C2: a tiered Set / SetBytes writes Local first and calls Remote only if
\* the Local write returned no error; when Local fails Remote is not written
\* and Local's error is returned; when Local succeeds the error is Remote's.
C2_WriteThroughOrder ==
    [][last'.op \in TieredWrites =>
          /\ Len(last'.calls) >= 1
          /\ last'.calls[1].tier = "Local"
          /\ last'.calls[1].method = Method(last'.op)
          /\ last'.calls[1].err # NoErr =>
                /\ Len(last'.calls) = 1
                /\ last'.err = last'.calls[1].err
                /\ last'.err.src = "Local"
                /\ remote' = remote
          /\ last'.calls[1].err = NoErr =>
                /\ last'.key \in DOMAIN local'
                /\ Len(last'.calls) = 2
                /\ last'.calls[2].tier = "Remote"
                /\ last'.calls[2].method = Method(last'.op)
                /\ last'.err = last'.calls[2].err
                /\ last'.err # NoErr => last'.err.src = "Remote"]_vars

\* C2's case: the engine rejects the entry, Remote holds nothing for the key.
C2_Witness ==
    /\ last.op = "Tiered.SetBytes"
    /\ Len(last.calls) = 1
    /\ last.err.kind = "ErrEntryTooBig"
    /\ last.key \notin DOMAIN remote

C4_EqualBytes ==
    (last.op \in TieredWrites /\ last.err = NoErr) =>
        /\ last.key \in DOMAIN local
        /\ last.key \in DOMAIN remote
        /\ local[last.key] = remote[last.key]

\* C4 amended: after a tiered SetBytes(k, b) that returned no error both tiers
\* hold b; after a tiered Set(k, v) that returned no error each tier holds an
\* encoding of v, so both decode to v.
C4_EquivalentBytes ==
    (last.op \in TieredWrites /\ last.err = NoErr) =>
        /\ last.key \in DOMAIN local
        /\ last.key \in DOMAIN remote
        /\ last.op = "Tiered.SetBytes" =>
              /\ local[last.key] = last.bytes
              /\ remote[last.key] = last.bytes
        /\ last.op = "Tiered.Set" =>
              /\ local[last.key] \in Encodings(last.val)
              /\ remote[last.key] \in Encodings(last.val)
              /\ Decode(local[last.key], "none") = Decode(remote[last.key], "none")
              /\ Decode(local[last.key], "none").value = last.val

\* C4's case: a tiered Set succeeded and the two tiers hold different bytes.
C4_Witness ==
    /\ last.op = "Tiered.Set"
    /\ last.err = NoErr
    /\ local[last.key] # remote[last.key]

\* C5: a GetBytes / Get on LocalCache, RemoteCache or TieredCache leaves the
\* contents of both tiers unchanged; in particular a value found only in
\* Remote is not written into Local.
C5_ReadsDoNotMutate ==
    [][last'.op \in ReadOps => (local' = local /\ remote' = remote)]_vars

\* C5's case: only Remote holds k, the tiered Get returned the value, and
\* Local still does not hold k.
C5_Witness ==
    /\ last.op = "Tiered.Get"
    /\ last.err = NoErr
    /\ last.target = MapV
    /\ last.key \notin DOMAIN local
    /\ last.key \in DOMAIN remote

\* Store s holds an encoding of value v for key.
Holds(s, key, v) == key \in DOMAIN s /\ s[key] \in Encodings(v)

\* The shared pool exists and has been closed.
SharedClosed ==
    sharedCluster.cluster # NilCluster /\ pools[sharedCluster.cluster].closed

C6_SetStores ==
    /\ (last'.op \in {"Local.Set", "Tiered.Set"} /\ last'.err = NoErr) =>
          Holds(local', last'.key, last'.val)
    /\ (last'.op \in {"Remote.Set", "Tiered.Set"} /\ last'.err = NoErr) =>
          Holds(remote', last'.key, last'.val)
    /\ (last'.op \in {"Local.SetBytes", "Tiered.SetBytes"} /\ last'.err = NoErr) =>
          (last'.key \in DOMAIN local' /\ local'[last'.key] = last'.bytes)
    /\ (last'.op \in {"Remote.SetBytes", "Tiered.SetBytes"} /\ last'.err = NoErr) =>
          (last'.key \in DOMAIN remote' /\ remote'[last'.key] = last'.bytes)

\* What a tier holds for k differs between stores s and t.
Differs(s, t, k) ==
    \/ (k \in DOMAIN s) # (k \in DOMAIN t)
    \/ k \in DOMAIN s /\ k \in DOMAIN t /\ s[k] # t[k]

\* What a tier holds for k changes only by a write or delete of k, a purge or
\* the expiry of k.
C6_OnlyWritersChange ==
    \A k \in Keys :
       /\ Differs(local, local', k) =>
             \/ last'.op \in {"Local.Purge", "Tiered.Purge"}
             \/ /\ last'.op \in {"Local.Set", "Local.SetBytes", "Local.Delete",
                                 "Local.expire", "Tiered.Set", "Tiered.SetBytes",
                                 "Tiered.Delete"}
                /\ last'.key = k
       /\ Differs(remote, remote', k) =>
             \/ last'.op \in {"Remote.Purge", "Tiered.Purge"}
             \/ /\ last'.op \in {"Remote.Set", "Remote.SetBytes", "Tiered.Set",
                                 "Tiered.SetBytes"}
                /\ last'.key = k
             \/ /\ last'.op \in {"Remote.Delete", "Tiered.Delete"}
                /\ GlobMatch(last'.key, k)

\* A Get / GetBytes of a key whose value the serving tier holds returns it:
\* always from Local; from Remote unless the pool is closed or the command
\* fails in transport, and then the error is the pool's or the connection's.
C6_ReadReturnsStored ==
    /\ \A v \in Values :
          /\ (last'.op = "Local.Get" /\ Holds(local, last'.key, v)) =>
                (last'.err = NoErr /\ last'.target = v)
          /\ (last'.op = "Tiered.Get" /\ Holds(local, last'.key, v)) =>
                (last'.err = NoErr /\ last'.target = v /\ Len(last'.calls) = 1)
          /\ (last'.op = "Remote.Get" /\ Holds(remote, last'.key, v)) =>
                \/ last'.err = NoErr /\ last'.target = v
                \/ last'.err.kind = "ErrClosed" /\ SharedClosed /\ last'.target = NoValue
                \/ last'.err.kind = "ErrConn" /\ ~SharedClosed /\ last'.target = NoValue
    /\ (last'.op = "Local.GetBytes" /\ last'.key \in DOMAIN local) =>
          (last'.err = NoErr /\ last'.data = local[last'.key])
    /\ (last'.op = "Tiered.GetBytes" /\ last'.key \in DOMAIN local) =>
          (last'.err = NoErr /\ last'.data = local[last'.key] /\ Len(last'.calls) = 1)
    /\ (last'.op = "Remote.GetBytes" /\ last'.key \in DOMAIN remote) =>
          \/ last'.err = NoErr /\ last'.data = remote[last'.key]
          \/ last'.err.kind = "ErrClosed" /\ SharedClosed /\ last'.data = NilBytes
          \/ last'.err.kind = "ErrConn" /\ ~SharedClosed /\ last'.data = NilBytes

C9_ClosedIsTerminal ==
    [][SharedClosed =>
          /\ SharedClosed'
          /\ Len(pools') = Len(pools)
          /\ sharedCluster'.cluster = sharedCluster.cluster
          /\ last'.op \in {"Remote.GetBytes", "Remote.SetBytes", "Remote.Delete",
                           "Remote.Purge", "Remote.Get", "Remote.Set"} =>
                last'.err # NoErr
          /\ last'.op \in {"Remote.GetBytes", "Remote.SetBytes", "Remote.Delete",
                           "Remote.Purge"} =>
                (last'.err.kind = "ErrClosed" /\ remote' = remote)]_vars

\* C9's case: the pool is closed and a Delete has just returned its error.
C9_Witness ==
    /\ SharedClosed
    /\ last.op = "Remote.Delete"
    /\ last.err.kind = "ErrClosed"

(***************************** claims: the shared pool (SpecPool) **********)
\* C7: however many NewCache calls run, one after another or concurrently, at
\* most one pool is ever built, exactly one once a NewCache has returned, and
\* every RemoteCache returned references that one pool.
C7_OnePool ==
    /\ Len(pools) <= 1
    /\ sharedCluster.cluster # NilCluster => (Len(pools) = 1 /\ sharedCluster.cluster = 1)
    /\ returned # {} => Len(pools) = 1
    /\ \A rc \in returned : rc.cluster = sharedCluster.cluster /\ rc.cluster = 1
    /\ \A p \in Procs : pc[p] = "ncRefresh" => Len(pools) = 1

\* C7's case: two concurrent NewCache calls with different configurations are
\* both past the Once, and a RemoteCache has been returned before.
C7_Witness ==
    /\ returned # {}
    /\ \E p, q \in Procs :
          /\ p # q
          /\ pc[p] = "ncRefresh" /\ pc[q] = "ncRefresh"
          /\ frame[p] # frame[q]

\* C8: the pool is torn down at most once; after the teardown every Close
\* returns without touching the pool.
C8_CloseOnce ==
    [][/\ teardowns' <= 1
       /\ teardowns >= 1 =>
             /\ teardowns' = teardowns
             /\ pools' = pools
             /\ last' # last => (last'.op = "Close" => last'.calls = <<>>)]_vars

\* C8's case: the pool has been torn down and a later Close has returned
\* without a teardown.
C8_Witness ==
    /\ teardowns = 1
    /\ SharedClosed
    /\ last.op = "Close"
    /\ last.calls = <<>>
    /\ last.err = NoErr

\* C10: the pool's seed nodes and timeout are those of the NewCache call that
\* built it, no NewCache call has returned before that call, and no later
\* NewCache call with another configuration changes them or the pool that
\* sharedCluster references.
C10_FirstCallerWins ==
    [][/\ sharedCluster.cluster # NilCluster =>
             /\ sharedCluster'.cluster = sharedCluster.cluster
             /\ Len(pools') = Len(pools)
             /\ pools'[sharedCluster.cluster].StartupNodes
                   = pools[sharedCluster.cluster].StartupNodes
             /\ pools'[sharedCluster.cluster].Timeout
                   = pools[sharedCluster.cluster].Timeout
       /\ (sharedCluster.cluster = NilCluster /\ sharedCluster'.cluster # NilCluster) =>
             /\ pools = <<>>
             /\ returned = {}
             /\ \E p \in Procs :
                   /\ pc[p] = "ncSlow" /\ pc'[p] = "ncRefresh"
                   /\ pools'[sharedCluster'.cluster].StartupNodes = frame[p].URLs
                   /\ pools'[sharedCluster'.cluster].Timeout = frame[p].Timeout
       /\ returned' # returned =>
             /\ sharedCluster.cluster # NilCluster
             /\ returned' = returned \cup {RemoteCacheValue(sharedCluster.cluster)}]_vars

\* C10's case: the pool was built from CfgA, and a later NewCache call with
\* CfgB is past the Once while the pool still has CfgA's seed nodes.
C10_Witness ==
    /\ returned # {}
    /\ Len(pools) = 1
    /\ pools[1].StartupNodes = CfgA.URLs
    /\ pools[1].Timeout = CfgA.Timeout
    /\ \E p \in Procs : pc[p] = "ncRefresh" /\ frame[p] = CfgB

(***************************** claims: delete, purge, counters (Spec) *******)
\* The keys of store s that glob pattern p matches.
Matching(s, p) == {k \in DOMAIN s : GlobMatch(p, k)}

\* C11: a RemoteCache.Delete(p) that returns no error has removed exactly the
\* keys matching p and left every other key and its value unchanged (nothing
\* changes when no key matches).
C11_PatternDelete ==
    [][(last'.op = "Remote.Delete" /\ last'.err = NoErr) =>
          remote' = Drop(remote, Matching(remote, last'.key))]_vars

\* The Delete and Purge methods of TieredCache.
TieredRemovals == {"Tiered.Delete", "Tiered.Purge"}

\* C13: a tiered Delete / Purge calls Local first and Remote only if Local
\* returned no error; when Local fails Remote's contents are unchanged and
\* Local's error is returned; when Local succeeds the error is Remote's.
C13_RemoveOrder ==
    [][last'.op \in TieredRemovals =>
          /\ Len(last'.calls) >= 1
          /\ last'.calls[1].tier = "Local"
          /\ last'.calls[1].method = Method(last'.op)
          /\ last'.calls[1].err # NoErr =>
                /\ Len(last'.calls) = 1
                /\ last'.err = last'.calls[1].err
                /\ last'.err.src = "Local"
                /\ remote' = remote
          /\ last'.calls[1].err = NoErr =>
                /\ Len(last'.calls) = 2
                /\ last'.calls[2].tier = "Remote"
                /\ last'.calls[2].method = Method(last'.op)
                /\ last'.err = last'.calls[2].err
                /\ last'.err # NoErr => last'.err.src = "Remote"]_vars

\* C13's case: Delete of a key that Local does not hold and Remote does:
\* Local's not-found error comes back and Remote still holds the key.
C13_Witness ==
    /\ last.op = "Tiered.Delete"
    /\ Len(last.calls) = 1
    /\ last.err.kind = "ErrEntryNotFound"
    /\ last.key \notin DOMAIN local
    /\ last.key \in DOMAIN remote

OwnCounters ==
    LET IsOwn(c) == c[1] = "Tiered" IN SelectSeq(last.rec, IsOwn)

\* C16: every tiered Get records exactly one counter on TieredCache's own
\* Metrics: Hit if it returns no error, Miss otherwise, whatever the tiers
\* record; a Get of a key absent from both tiers returns an error and records
\* one Miss.
C16_OwnHitMiss ==
    last.op = "Tiered.Get" =>
        /\ OwnCounters = <<Rec("Tiered", IF last.err = NoErr THEN "Hit" ELSE "Miss")>>
        /\ (last.key \notin DOMAIN local /\ last.key \notin DOMAIN remote) =>
              (last.err # NoErr /\ OwnCounters = <<Rec("Tiered", "Miss")>>)

\* C16's case: Local misses, Remote finds bytes that do not decode and counts
\* a Hit, and the tiered Get, returning the error, counts one Miss of its own.
C16_Witness ==
    /\ last.op = "Tiered.Get"
    /\ last.err.kind = "ErrDecode"
    /\ last.rec = <<Rec("Local", "Miss"), Rec("Remote", "Hit"), Rec("Tiered", "Miss")>>

\* C17: every LocalCache.Get / RemoteCache.Get records exactly one counter on
\* its tier's Metrics: Hit if it returns no error, Miss if it returns any
\* error, a Decode failure on found bytes included.
C17_TierHitMiss ==
    /\ last.op = "Local.Get" =>
          last.rec = <<Rec("Local", IF last.err = NoErr THEN "Hit" ELSE "Miss")>>
    /\ last.op = "Remote.Get" =>
          last.rec = <<Rec("Remote", IF last.err = NoErr THEN "Hit" ELSE "Miss")>>

\* C18: when Encode fails in LocalCache.Set / RemoteCache.Set the call returns
\* the encode error, records one SetCollision and no Set, and both stores are
\* what they were.
C18_EncodeFailure ==
    [][/\ (last'.op = "Local.Set" /\ Encodings(last'.val) = {}) =>
             /\ last'.err = Err("Local", "ErrEncode")
             /\ last'.rec = <<Rec("Local", "SetCollision")>>
             /\ local' = local /\ remote' = remote
       /\ (last'.op = "Remote.Set" /\ Encodings(last'.val) = {}) =>
             /\ last'.err = Err("Remote", "ErrEncode")
             /\ last'.rec = <<Rec("Remote", "SetCollision")>>
             /\ local' = local /\ remote' = remote]_vars

\* C18's case: a RemoteCache.Set of a value that does not encode has returned
\* the encode error, with the key's earlier bytes still in the store.
C18_Witness ==
    /\ last.op = "Remote.Set"
    /\ last.val = NilV
    /\ last.err.kind = "ErrEncode"
    /\ last.rec = <<Rec("Remote", "SetCollision")>>
    /\ last.key \in DOMAIN remote

\* C26: LocalCache.Delete(k) removes only k: when Local holds k the key is
\* removed, no error is returned and one DeleteHit is recorded; when it does
\* not, an error is returned, one DeleteMiss is recorded and Local is
\* unchanged; every other key keeps its bytes and Remote is untouched.
C26_LocalDelete ==
    [][(Idle /\ last'.op = "Local.Delete") =>
          LET k == last'.key
          IN  /\ k \in DOMAIN local =>
                    /\ last'.err = NoErr
                    /\ last'.rec = <<Rec("Local", "DeleteHit")>>
                    /\ k \notin DOMAIN local'
              /\ k \notin DOMAIN local =>
                    /\ last'.err # NoErr
                    /\ last'.rec = <<Rec("Local", "DeleteMiss")>>
                    /\ local' = local
              /\ \A j \in Keys \ {k} : ~Differs(local, local', j)
              /\ remote' = remote]_vars

\* C26's case: a Delete has removed its key and Local still holds another.
C26_Witness ==
    /\ last.op = "Local.Delete"
    /\ last.err = NoErr
    /\ last.rec = <<Rec("Local", "DeleteHit")>>
    /\ last.key \notin DOMAIN local
    /\ local # EmptyStore

\* C27: every RemoteCache.Delete records exactly one counter: DeleteMiss when
\* KEYS failed or matched no key, DeleteHit in every other case, also when the
\* call then fails at EXEC.
C27_DeleteCounter ==
    [][(Idle /\ last'.op = "Remote.Delete") =>
          LET miss == last'.calls[1].err # NoErr \/ Matching(remote, last'.key) = {}
          IN  /\ last'.calls[1].method = "KEYS"
              /\ last'.rec = <<Rec("Remote", IF miss THEN "DeleteMiss" ELSE "DeleteHit")>>]_vars

\* C27's case: KEYS matched a key, DeleteHit was recorded, and EXEC failed:
\* the call returned the error and the key is still stored.
C27_Witness ==
    /\ last.op = "Remote.Delete"
    /\ last.rec = <<Rec("Remote", "DeleteHit")>>
    /\ last.err = Err("Remote", "ErrConn")
    /\ Matching(remote, last.key) # {}

\* C28: when KEYS fails, RemoteCache.Delete goes on: it sends MULTI, no DEL,
\* and EXEC, deletes nothing, and returns what EXEC returned; a failed KEYS
\* followed by a good EXEC returns no error.
C28_NoShortCircuit ==
    [][(Idle /\ last'.op = "Remote.Delete" /\ last'.calls[1].err # NoErr) =>
          /\ Len(last'.calls) = 3
          /\ last'.calls[2].method = "MULTI"
          /\ last'.calls[3].method = "EXEC"
          /\ last'.err = last'.calls[3].err
          /\ remote' = remote]_vars

\* C28's case: KEYS was answered with an error, EXEC succeeded, and the call
\* returned no error with the matching keys still stored.
C28_Witness ==
    /\ last.op = "Remote.Delete"
    /\ last.calls[1].err = Err("Remote", "ErrReply")
    /\ last.calls[3].err = NoErr
    /\ last.err = NoErr
    /\ Matching(remote, last.key) # {}

\* C29: LocalCache.Set / RemoteCache.Set record the Set counter only for a
\* call that returns no error: a call that returns an error, the store write
\* having failed after a good Encode, records no Set.
C29_SetOnSuccess ==
    /\ (last.op = "Local.Set" /\ last.err # NoErr) =>
          \A i \in 1..Len(last.rec) : last.rec[i] # Rec("Local", "Set")
    /\ (last.op = "Remote.Set" /\ last.err # NoErr) =>
          \A i \in 1..Len(last.rec) : last.rec[i] # Rec("Remote", "Set")

\* The success and the failure counter of a tiered Set, Delete, Purge.
OwnCounter(op, ok) ==
    CASE op = "Tiered.Set" -> IF ok THEN "Set" ELSE "SetCollision"
      [] op = "Tiered.Delete" -> IF ok THEN "DeleteHit" ELSE "DeleteMiss"
      [] OTHER -> IF ok THEN "PurgeHit" ELSE "PurgeMiss"

\* C30: every tiered Set, Delete and Purge records exactly one counter on
\* TieredCache's own Metrics: the success counter if the call returns no
\* error, which is when both tier calls were made and returned none, and the
\* failure counter otherwise, whichever tier failed.
C30_OwnWriteCounters ==
    last.op \in {"Tiered.Set", "Tiered.Delete", "Tiered.Purge"} =>
        /\ OwnCounters = <<Rec("Tiered", OwnCounter(last.op, last.err = NoErr))>>
        /\ last.err = NoErr <=>
              /\ Len(last.calls) = 2
              /\ last.calls[1].err = NoErr
              /\ last.calls[2].err = NoErr

\* C30's case: the Local delete succeeded and counted its DeleteHit, the
\* Remote delete failed, and TieredCache counted one DeleteMiss.
C30_Witness ==
    /\ last.op = "Tiered.Delete"
    /\ last.calls[1].err = NoErr
    /\ last.err # NoErr
    /\ last.rec[1] = Rec("Local", "DeleteHit")
    /\ OwnCounters = <<Rec("Tiered", "DeleteMiss")>>

(***************************** claims: errors (Spec) ***********************)
TieredOps == TieredReads \cup TieredWrites \cup TieredRemovals

\* C23: the error a TieredCache operation returns is the error of the last
\* tier call it made: Local's when Remote was not called, otherwise Remote's;
\* no error has TieredCache as its origin.
C23_ErrorUnchanged ==
    last.op \in TieredOps =>
        LET n == Len(last.calls)
        IN  /\ n \in {1, 2}
            /\ last.calls[1].tier = "Local"
            /\ n = 2 => (last.calls[1].err # NoErr \/ last.op \notin TieredReads)
            /\ n = 2 => last.calls[2].tier = "Remote"
            /\ last.err = last.calls[n].err
            /\ last.err # NoErr => last.err.src = last.calls[n].tier

\* C23's case: Local misses, the Remote read fails in transport, and the
\* tiered GetBytes returns the connection's error, not a miss.
C23_Witness ==
    /\ last.op = "Tiered.GetBytes"
    /\ Len(last.calls) = 2
    /\ last.calls[1].err.kind = "ErrEntryNotFound"
    /\ last.err = Err("Remote", "ErrConn")
    /\ last.key \in DOMAIN remote

\* C24: TieredCache.Close on a TieredCache whose Remote is the concrete
\* RemoteCache does what RemoteCache.Close does, closing the shared pool if
\* no Close has run before and nothing otherwise, and returns normally; with
\* a Remote of another type it panics and closes nothing.
C24_TieredClose ==
    [][(Idle /\ last'.op = "Tiered.Close") =>
          LET run == ~sharedCluster.onceClose.done
              c == sharedCluster.cluster
          IN  /\ last'.bytes[2] = "RemoteCache" =>
                    /\ last'.err = NoErr
                    /\ last'.calls = <<Call("Remote", "Close", NoErr)>>
                    /\ sharedCluster' = [sharedCluster EXCEPT !.onceClose.done = TRUE]
                    /\ pools' = IF run THEN [pools EXCEPT ![c].closed = TRUE] ELSE pools
                    /\ teardowns' = IF run THEN Count(teardowns) ELSE teardowns
                    /\ SharedClosed'
              /\ last'.bytes[2] # "RemoteCache" =>
                    /\ last'.err = TypePanic
                    /\ last'.calls = <<>>
                    /\ sharedCluster' = sharedCluster
                    /\ pools' = pools
                    /\ teardowns' = teardowns]_vars

\* C24's case: Close on a TieredCache built around a test double has
\* panicked, and the pool is open and its Once unused.
C24_Witness ==
    /\ last.op = "Tiered.Close"
    /\ last.bytes = <<"Remote", "MockCache">>
    /\ last.err = TypePanic
    /\ ~SharedClosed
    /\ ~sharedCluster.onceClose.done
    /\ teardowns = 0

(***************************** claims: tiered delete, byte calls (Spec) *****)
\* C34: TieredCache.Delete(p) with a p that Local does not hold as a key, a
\* glob pattern for one, deletes nothing in either tier: Local looks p up as
\* an exact key and fails, the Remote delete is not called, and Local's error
\* is returned, whatever keys matching p the two tiers hold.
C34_GlobDeleteNoop ==
    [][(Idle /\ last'.op = "Tiered.Delete" /\ last'.key \notin DOMAIN local) =>
          /\ local' = local
          /\ remote' = remote
          /\ last'.calls = <<Call("Local", "Delete", Err("Local", "ErrEntryNotFound"))>>
          /\ last'.err = Err("Local", "ErrEntryNotFound")]_vars

\* C34's case: Delete("f*") has returned with both tiers still holding a key
\* that the pattern matches.
C34_Witness ==
    /\ last.op = "Tiered.Delete"
    /\ last.key = <<"f", "*">>
    /\ last.err = Err("Local", "ErrEntryNotFound")
    /\ Len(last.calls) = 1
    /\ Matching(local, last.key) # {}
    /\ Matching(remote, last.key) # {}

\* C36 as stated: whenever Local holds k and no key of Remote matches k,
\* TieredCache.Delete(k) returns no error and records its own DeleteHit, with
\* Remote recording DeleteMiss.
C36_ZeroMatchSucceeds ==
    [][(/\ Idle
        /\ last'.op = "Tiered.Delete"
        /\ last'.key \in DOMAIN local
        /\ Matching(remote, last'.key) = {}) =>
          /\ last'.err = NoErr
          /\ last'.rec = <<Rec("Local", "DeleteHit"), Rec("Remote", "DeleteMiss"),
                           Rec("Tiered", "DeleteHit")>>]_vars

\* C36, amended: when Local holds k and no key of Remote matches k, Remote
\* records DeleteMiss and the match of nothing is no error of its own: the
\* call returns what the Remote delete returned, which is no error unless the
\* connection failed (a closed pool, a transport failure), and TieredCache
\* records DeleteHit when it returns no error and DeleteMiss when it returns
\* the connection's error; Local has lost k and Remote is unchanged.
C36_ZeroMatch ==
    [][(/\ Idle
        /\ last'.op = "Tiered.Delete"
        /\ last'.key \in DOMAIN local
        /\ Matching(remote, last'.key) = {}) =>
          /\ Len(last'.calls) = 2
          /\ last'.err = last'.calls[2].err
          /\ last'.err # NoErr => last'.err \in {Err("Remote", "ErrConn"), Err("Remote", "ErrClosed")}
          /\ last'.rec = <<Rec("Local", "DeleteHit"), Rec("Remote", "DeleteMiss"),
                           Rec("Tiered", IF last'.err = NoErr THEN "DeleteHit"
                                         ELSE "DeleteMiss")>>
          /\ local' = Drop(local, {last'.key})
          /\ remote' = remote]_vars

\* C36's case: the delete has returned no error with TieredCache's DeleteHit
\* after Remote's DeleteMiss, and Remote holds another key.
C36_Witness ==
    /\ last.op = "Tiered.Delete"
    /\ last.err = NoErr
    /\ last.rec = <<Rec("Local", "DeleteHit"), Rec("Remote", "DeleteMiss"),
                    Rec("Tiered", "DeleteHit")>>
    /\ remote # EmptyStore

\* The GetBytes and SetBytes methods of the three caches.
ByteOps ==
    {"Local.GetBytes", "Local.SetBytes", "Remote.GetBytes", "Remote.SetBytes",
     "Tiered.GetBytes", "Tiered.SetBytes"}

\* C38: GetBytes and SetBytes of LocalCache, RemoteCache and TieredCache
\* record no counter on any Metrics, whether they return an error or not.
C38_ByteCallsCountNothing ==
    last.op \in ByteOps => last.rec = <<>>

\* C38's case: a tiered GetBytes has asked both tiers, failed, and counted
\* nothing.
C38_Witness ==
    /\ last.op = "Tiered.GetBytes"
    /\ Len(last.calls) = 2
    /\ last.err # NoErr
    /\ last.rec = <<>>

(***************************** claims: construction (SpecPool) *************)
\* C19: LocalCacheConfig.NewCache fails with the configuration error, without
\* calling the engine's constructor, for every nonzero shard count that is not
\* a power of two, and succeeds for 0 and for every power of two.
C19_ShardCheck ==
    last.op = "Local.NewCache" =>
        LET n == last.bytes[2]
        IN  /\ (n # 0 /\ ~IsPowerOfTwo(n)) =>
                  (last.err = Err("Local", "ErrConfig") /\ last.calls = <<>>)
            /\ (n = 0 \/ IsPowerOfTwo(n)) => last.err = NoErr


\* C22: when the topology refresh fails, NewCache returns the error together
\* with a RemoteCache whose cluster is the shared pool and whose Encoder,
\* Metrics and tracing flag are the ones the caller gave; the pool stays as
\* it was built, neither replaced nor closed by the failure.
C22_FailedRefresh ==
    [][\A p \in Procs :
          (/\ pc[p] = "ncRefresh" /\ pc'[p] = "idle"
           /\ last'.err.kind \in {"ErrRefresh", "ErrClosed"}) =>
             /\ last'.op = "NewCache"
             /\ last'.err # NoErr
             /\ sharedCluster.cluster # NilCluster
             /\ sharedCluster.cluster \in 1..Len(pools)
             /\ last'.data = <<"RemoteCache", sharedCluster.cluster, last'.bytes[2],
                               last'.bytes[3], frame[p].TracingEnabled>>
             /\ RemoteCacheValue(sharedCluster.cluster) \in returned'
             /\ sharedCluster' = sharedCluster
             /\ pools' = pools
             /\ teardowns' = teardowns]_vars

\* C22's case: the first NewCache built the pool, its refresh failed, and it
\* returned the error with a RemoteCache on the open pool, carrying the
\* metrics recorder and the tracing flag it was given.
C22_Witness ==
    /\ last.op = "NewCache"
    /\ last.err.kind = "ErrRefresh"
    /\ Len(pools) = 1 /\ ~pools[1].closed
    /\ last.data = <<"RemoteCache", 1, GobEncoder, "PrometheusCacheMetrics", TRUE>>
    /\ returned = {RemoteCacheValue(1)}

\* Goroutine p is inside a Close call.
InClose(p) == pc[p] \in {"clLoad", "clLock", "clSlow"}

\* C33: a Close call made after the shared pool was constructed, one made on
\* a RemoteCache that NewCache returned, leaves the pool closed when it
\* returns, whatever Close calls came before the construction or ran
\* alongside it.
C33_CloseCloses ==
    [][\A p \in Procs :
          (/\ InClose(p) /\ pc'[p] = "idle"
           /\ frame[p].cluster # NilCluster) =>
             pools'[frame[p].cluster].closed]_vars

\* C37: TieredCacheConfig.NewCache constructs Remote, then Local only if
\* Remote succeeded; it returns a TieredCache of the two and no error when
\* both succeeded, and otherwise the zero TieredCache with the error of the
\* step that failed; when it is the Local step, the shared pool is still
\* referenced by sharedCluster and open, and nothing was torn down.
C37_TieredNewCache ==
    [][last'.op = "Tiered.NewCache" =>
          LET calls == last'.calls
              cl == sharedCluster'.cluster
          IN  /\ Len(calls) \in {1, 2}
              /\ calls[1].tier = "Remote" /\ calls[1].method = "NewCache"
              /\ Len(calls) = 2 <=> calls[1].err = NoErr
              /\ Len(calls) = 2 => (calls[2].tier = "Local" /\ calls[2].method = "NewCache")
              /\ last'.err = calls[Len(calls)].err
              /\ last'.err # NoErr => last'.data = ZeroTieredCache
              /\ last'.err = NoErr =>
                    /\ last'.data # ZeroTieredCache
                    /\ last'.data[2][2] = cl
                    /\ last'.data[3][1] = "LocalCache"
              /\ (Len(calls) = 2 /\ calls[2].err # NoErr) =>
                    /\ cl # NilCluster
                    /\ cl \in 1..Len(pools')
                    /\ ~pools'[cl].closed
                    /\ teardowns' = teardowns
                    /\ sharedCluster'.onceClose = sharedCluster.onceClose
              /\ sharedCluster.cluster # NilCluster => (cl = sharedCluster.cluster /\ pools' = pools)]_vars

\* C37's case: the first NewCache of the process was a TieredCacheConfig's;
\* its Remote step built the pool, its Local step failed, the zero TieredCache
\* came back, and the pool is there, open, with no RemoteCache handed out.
C37_Witness ==
    /\ last.op = "Tiered.NewCache"
    /\ Len(last.calls) = 2
    /\ last.err = Err("Local", "ErrConfig")
    /\ last.data = ZeroTieredCache
    /\ returned = {}
    /\ Len(pools) = 1 /\ ~pools[1].closed
    /\ sharedCluster.cluster = 1

(***************************** claims: interleaved clients (SpecClients) ****)
\* C12: the deletions of one Remote.Delete call are applied as one batch: keys
\* leave the remote store only in the EXEC step of a Delete call, and that
\* step removes every key the call matched that is still stored, so no step
\* of any client sees some of the matched keys deleted by the call and others
\* not yet.
C12_AtomicBatch ==
    [][LET removed == DOMAIN remote \ DOMAIN remote'
       IN  removed # {} =>
             \E p \in Procs :
                /\ pc[p] = "rdSend" /\ pc'[p] = "rdDone"
                /\ removed = frame[p].matched \cap DOMAIN remote]_vars

\* A Delete call has removed two keys in its EXEC while another client was
\* in the middle of a call of its own.
C12_Witness ==
    \E p, q \in Procs :
       /\ p # q
       /\ pc[p] = "rdDone" /\ frame[p].err = NoErr
       /\ Cardinality(frame[p].matched) = 2
       /\ frame[p].matched \cap DOMAIN remote = {}
       /\ pc[q] \in {"rdSend", "tsRemote"}

\* C20: when two concurrent Tiered.Set calls on one key, with two values, have
\* both returned without error and no other call has run, each tier holds
\* under that key a complete encoding of one of the two values.
C20_LastWriterWins ==
    \A p, q \in Procs :
       (/\ p # q
        /\ pc[p] = "tsDone" /\ pc[q] = "tsDone"
        /\ frame[p].err = NoErr /\ frame[q].err = NoErr
        /\ frame[p].key = frame[q].key
        /\ \A r \in Procs \ {p, q} : pc[r] = "idle")
       => LET k == frame[p].key
              complete == Encodings(frame[p].val) \cup Encodings(frame[q].val)
          IN  /\ k \in DOMAIN local /\ local[k] \in complete
              /\ k \in DOMAIN remote /\ remote[k] \in complete

\* Both calls have returned and the tiers disagree: Local holds the one
\* value, Remote the other.
C20_Witness ==
    \E p, q \in Procs :
       /\ p # q
       /\ pc[p] = "tsDone" /\ pc[q] = "tsDone"
       /\ frame[p].err = NoErr /\ frame[q].err = NoErr
       /\ frame[p].key = frame[q].key
       /\ frame[p].val # frame[q].val
       /\ frame[p].key \in DOMAIN local /\ frame[p].key \in DOMAIN remote
       /\ local[frame[p].key] \in Encodings(frame[p].val)
       /\ remote[frame[p].key] \in Encodings(frame[q].val)

\* C35: RemoteCache.Delete(p) removes only the keys its KEYS step returned: in
\* the EXEC step every key outside that reply keeps its bytes, one matching p
\* that another client wrote after KEYS included, so a Delete(p) that returns
\* no error can leave keys matching p in the store.
C35_OnlyMatchedKeys ==
    [][\A p \in Procs :
          (pc[p] = "rdSend" /\ pc'[p] = "rdDone") =>
             /\ \A k \in DOMAIN remote \ frame[p].matched :
                    k \in DOMAIN remote' /\ remote'[k] = remote[k]
             /\ frame'[p].err = NoErr =>
                    DOMAIN remote' = DOMAIN remote \ frame[p].matched]_vars

\* A Delete(p) has returned no error, its KEYS reply was not empty, and the
\* store holds a key matching p that was not in the reply: another client's
\* Set wrote it between KEYS and EXEC.
C35_Witness ==
    \E p \in Procs :
       /\ pc[p] = "rdDone"
       /\ frame[p].err = NoErr
       /\ frame[p].matched # {}
       /\ \E k \in DOMAIN remote :
             GlobMatch(frame[p].key, k) /\ k \notin frame[p].matched

\* C21: each tier applies the writes of concurrent tiered Set calls on its
\* own: the Local half of a call leaves Local holding that call's value and
\* does not touch Remote, the Remote half leaves Remote holding that call's
\* value and does not touch Local, whatever the other tier holds by then; so
\* two successful calls can leave Local with one value and Remote with the
\* other.
C21_TiersIndependent ==
    [][\A p \in Procs :
          /\ (pc[p] = "idle" /\ pc'[p] = "tsRemote") =>
                /\ remote' = remote
                /\ Holds(local', frame'[p].key, frame'[p].val)
          /\ (pc[p] = "tsRemote" /\ pc'[p] = "tsDone" /\ frame'[p].err = NoErr) =>
                /\ local' = local
                /\ Holds(remote', frame[p].key, frame[p].val)]_vars

\* Two Set calls on one key, and no other call, have both returned no error;
\* a Get served by Local would decode to the value of the one call, a Get
\* served by Remote to the value of the other.
C21_Witness ==
    \E p, q \in Procs :
       /\ p # q
       /\ \A r \in Procs \ {p, q} : pc[r] = "idle"
       /\ pc[p] = "tsDone" /\ pc[q] = "tsDone"
       /\ frame[p].err = NoErr /\ frame[q].err = NoErr
       /\ frame[p].key = frame[q].key
       /\ frame[p].val # frame[q].val
       /\ LocalGet(local, frame[p].key).target = frame[q].val
       /\ RemoteGet(remote, NoErr, frame[p].key).target = frame[p].val

(***************************** claims: connections and spans (SpecConns) ****)
\* The goroutines inside a remote call that has taken its connection.
Holding == {p \in Procs : frame[p].deferred # <<>>}

\* How many of the calls in cs are method m of obj.
RECURSIVE CountEv(_, _, _)
CountEv(cs, obj, m) ==
    IF cs = <<>> THEN 0
    ELSE (IF Head(cs).obj = obj /\ Head(cs).method = m THEN 1 ELSE 0)
         + CountEv(Tail(cs), obj, m)

\* C31: the connections the pool has out are exactly those of the remote
\* calls in flight that have taken one, so none is out when no call is in
\* flight; a GetBytes, SetBytes, Delete or Purge that is about to return,
\* with an error or without, took one connection and has its Close deferred,
\* and so did a NewCache that sent AUTH; a NewCache that sent no AUTH took none.
C31_ConnectionsReleased ==
    /\ pools[1].active = Cardinality(Holding)
    /\ (\A p \in Procs : pc[p] = "idle") => pools[1].active = 0
    /\ \A p \in Procs :
          /\ pc[p] = "idle" => frame[p] = NoCFrame
          /\ (pc[p] # "idle" /\ frame[p].op \in ConnOps) =>
                /\ CountEv(frame[p].calls, "Cluster", "Get") = 1
                /\ frame[p].deferred = <<Ev("Conn", "Close", "")>>
          /\ (pc[p] # "idle" /\ frame[p].op = "NewCache") =>
                /\ CountEv(frame[p].calls, "Cluster", "Get") = Len(frame[p].deferred)
                /\ Len(frame[p].deferred) <= 1
                /\ (pc[p] = "cnDefer" /\ Len(frame[p].deferred) = 1) <=>
                      CountEv(frame[p].calls, "Conn", "Do") = 1

\* C31's case: two calls have run their commands on a connection each, a
\* Purge that failed and a NewCache whose AUTH succeeded; both are about to
\* return and give their connection back, and the pool has those two out.
C31_Witness ==
    \E p, q \in Procs :
       /\ pc[p] = "cnDefer" /\ frame[p].op = "Purge" /\ frame[p].err # NoErr
       /\ pc[q] = "cnDefer" /\ frame[q].op = "NewCache" /\ frame[q].err = NoErr
       /\ frame[q].deferred # <<>>
       /\ pools[1].active = 2

\* C32: a GetBytes, SetBytes, Delete or Purge of a receiver that traces
\* returns having started one span, set its result tag once, to the value
\* that goes with the error it returns, and finished it once, after the tag;
\* one of a receiver that does not trace returns having called no span.
C32_OneSpanPerCall ==
    [][\A p \in Procs :
          (pc[p] = "cnDefer" /\ pc'[p] = "idle" /\ frame[p].op \in ConnOps) =>
             LET cs == frame[p].calls
                 n == Len(cs)
             IN  IF frame[p].tracing
                 THEN /\ CountEv(cs, "Span", "Start") = 1
                      /\ CountEv(cs, "Span", "SetTag.result") = 1
                      /\ CountEv(cs, "Span", "Finish") = 1
                      /\ cs[1] = Ev("Span", "Start", "")
                      /\ cs[n - 1] = Ev("Span", "SetTag.result",
                                        ResultTag(frame[p].op, frame[p].err))
                      /\ cs[n] = Ev("Span", "Finish", "")
                 ELSE \A i \in 1..n : cs[i].obj # "Span"]_vars

\* C32's case: a traced Delete failed and is about to return with its span
\* tagged "fail" and finished, while an untraced call is in flight.
C32_Witness ==
    \E p, q \in Procs :
       /\ pc[p] = "cnDefer" /\ frame[p].op = "Delete" /\ frame[p].tracing
       /\ frame[p].err # NoErr
       /\ Ev("Span", "Finish", "") = frame[p].calls[Len(frame[p].calls)]
       /\ pc[q] = "cnHeld" /\ ~frame[q].tracing /\ frame[q].op = "GetBytes"

====
